---- MODULE Spec2Model ----
(***************************************************************************)
(* GitRocket: the repository command/state layer (git_ops.py), the         *)
(* interactive patch engine (ui_components.py) and the orchestration       *)
(* handlers (main.py).                                                     *)
(*                                                                         *)
(* Texts are sequences of one-character strings, so that split, join and   *)
(* strip are computed the way Python computes them.                        *)
(***************************************************************************)
EXTENDS Integers, Sequences, FiniteSets, TLC

VARIABLES
    \* ---- InteractiveDiffView (ui_components.py) ----
    diff_text,      \* self.diff_text
    is_staged,      \* self.is_staged
    hunks,          \* self.hunks: sequence of [chk |-> checkbox value, text |-> hunk text]
    file_header,    \* self.file_header
    controls,       \* what the view shows: "unbuilt", "no_changes", "hunk_cards"
    \* ---- porcelain status parsing (git_ops.py) ----
    status_raw,     \* what `git status --porcelain` wrote to its stdout
    status_ok,      \* whether that command exited with code 0
    limit,          \* the limit argument of get_unstaged_files
    summary,        \* <<return value of get_changes_summary>>, <<>> before the call
    unstaged,       \* <<return value of get_unstaged_files>>, <<>> before the call
    \* ---- GitRepository and the threads running its methods (git_ops.py) ----
    merge_head,     \* whether .git/MERGE_HEAD exists on disk
    in_merge_state, \* self.in_merge_state
    jobs,           \* the worker threads: one GitRepository method call each
    \* ---- GitRocketApp (main.py) ----
    task,           \* the handler coroutine the event loop is running
    view,           \* what set_view showed last
    buttons,        \* the buttons of that view: [handler, data (e.control.data)]
    dialog,         \* the buttons of the open modal dialog, {} when there is none
    \* ---- one application of a method to given results of git ----
    args,           \* what the method is applied to, <<>> when none is
    returned,       \* <<its return value>>, <<>> before it has returned
    \* ---- CommitComposer and the notices of the page (main.py) ----
    composer        \* the AI button, the message fields, the snack bar

diffVars   == <<diff_text, is_staged, hunks, file_header, controls>>
statusVars == <<status_raw, status_ok, limit, summary, unstaged>>
callVars   == <<args, returned>>
repoVars   == <<merge_head, in_merge_state, jobs>>
appVars    == <<task, view, buttons, dialog>>
otherVars  == <<diffVars, statusVars, callVars, composer, appVars>>
vars       == <<diffVars, statusVars, callVars, composer, repoVars, appVars>>

\* ------------------------------------------------------------------------
\* Bounds of the model
\* ------------------------------------------------------------------------
MaxDiffLen == 7
MaxStatusLines == 2

\* ------------------------------------------------------------------------
\* Python string primitives
\* ------------------------------------------------------------------------
NL == "\n"

RECURSIVE SplitAcc(_, _, _, _)
SplitAcc(text, i, cur, acc) ==
    IF i > Len(text) THEN Append(acc, cur)
    ELSE IF text[i] = NL THEN SplitAcc(text, i + 1, <<>>, Append(acc, cur))
    ELSE SplitAcc(text, i + 1, Append(cur, text[i]), acc)

\* str.split('\n'): always at least one piece
Split(text) == SplitAcc(text, 1, <<>>, <<>>)

\* str.splitlines(): no piece for the text after a final line break
SplitLines(text) ==
    LET p == Split(text)
    IN  IF p[Len(p)] = <<>> THEN SubSeq(p, 1, Len(p) - 1) ELSE p

RECURSIVE Join(_)
\* "\n".join(lines)
Join(lines) ==
    IF lines = <<>> THEN <<>>
    ELSE IF Len(lines) = 1 THEN lines[1]
    ELSE lines[1] \o <<NL>> \o Join(Tail(lines))

IsSpace(c) == c \in {" ", NL, "\t"}

RECURSIVE LStrip(_)
LStrip(text) ==
    IF text # <<>> /\ IsSpace(text[1]) THEN LStrip(Tail(text)) ELSE text

RECURSIVE RStrip(_)
RStrip(text) ==
    IF text # <<>> /\ IsSpace(text[Len(text)])
    THEN RStrip(SubSeq(text, 1, Len(text) - 1)) ELSE text

\* str.strip()
Strip(text) == RStrip(LStrip(text))

\* line[k:] for a 0-based Python index k
SliceFrom(line, k) == SubSeq(line, k + 1, Len(line))

\* seq[:n]
Take(seq, n) == SubSeq(seq, 1, IF n < Len(seq) THEN n ELSE Len(seq))

RECURSIVE SeqsUpTo(_, _)
\* all sequences over S of length at most n
SeqsUpTo(S, n) ==
    IF n = 0 THEN {<<>>}
    ELSE LET shorter == SeqsUpTo(S, n - 1)
         IN  shorter \cup {Append(s, c) : s \in shorter, c \in S}

\* ------------------------------------------------------------------------
\* InteractiveDiffView._parse_hunks
\* ------------------------------------------------------------------------
\* line.startswith('@@')
StartsWithAt(line) == Len(line) >= 2 /\ line[1] = "@" /\ line[2] = "@"

HunkStarts(lines) == {i \in 1..Len(lines) : StartsWithAt(lines[i])}

\* the first loop: header_lines, and line_idx as a 1-based position.  line_idx
\* keeps its initial value 0 (position 1) when no line starts with '@@'.
HeaderLoop(lines) ==
    IF HunkStarts(lines) = {}
    THEN [header_lines |-> lines, line_idx |-> 1]
    ELSE LET first == CHOOSE i \in HunkStarts(lines) :
                          \A k \in HunkStarts(lines) : i <= k
         IN  [header_lines |-> SubSeq(lines, 1, first - 1), line_idx |-> first]

RECURSIVE HunkLoop(_, _, _, _)
\* the second loop over lines[line_idx:], then the trailing append
HunkLoop(lines, i, parsed_hunks, current_hunk) ==
    IF i > Len(lines)
    THEN IF current_hunk # <<>> THEN Append(parsed_hunks, Join(current_hunk))
         ELSE parsed_hunks
    ELSE IF StartsWithAt(lines[i]) /\ current_hunk # <<>>
         THEN HunkLoop(lines, i + 1, Append(parsed_hunks, Join(current_hunk)),
                       <<lines[i]>>)
         ELSE HunkLoop(lines, i + 1, parsed_hunks, Append(current_hunk, lines[i]))

ParseHunks(text) ==
    LET lines == Split(text)
        h == HeaderLoop(lines)
    IN  IF lines = <<>> THEN [hunks |-> <<>>, file_header |-> <<>>]
        ELSE [hunks |-> HunkLoop(lines, h.line_idx, <<>>, <<>>),
              file_header |-> Join(h.header_lines)]

\* _build_view: the header, the (checkbox, hunk_text) pairs and what is shown
ViewOf(text) ==
    LET p == ParseHunks(text)
    IN  [file_header |-> p.file_header,
         controls |-> IF p.hunks = <<>> THEN "no_changes" ELSE "hunk_cards",
         hunks |-> [i \in 1..Len(p.hunks) |-> [chk |-> FALSE, text |-> p.hunks[i]]]]

\* InteractiveDiffView.__init__ / _build_view
BuildView ==
    /\ controls = "unbuilt"
    /\ file_header' = ViewOf(diff_text).file_header
    /\ controls' = ViewOf(diff_text).controls
    /\ hunks' = ViewOf(diff_text).hunks
    /\ UNCHANGED <<diff_text, is_staged, statusVars, callVars, composer, repoVars, appVars>>

\* ------------------------------------------------------------------------
\* Porcelain status parsing
\* ------------------------------------------------------------------------
\* GitResult of a completed subprocess: stdout is stripped as a whole
CompletedResult(ok, out) == [success |-> ok, stdout |-> Strip(out)]

\* GitRepository.get_changes_summary, given the result of _run_command
ChangesSummary(result) ==
    LET status_lines == SplitLines(result.stdout)
        Count(P(_)) == Cardinality({i \in 1..Len(status_lines) : P(status_lines[i])})
        IsStaged(line) == line # <<>> /\ line[1] \notin {" ", "?"}
        IsNew(line) == Len(line) >= 2 /\ line[1] = "?" /\ line[2] = "?"
        IsMod(line) == line # <<>> /\ ~IsNew(line) /\ Len(line) > 1 /\ line[2] = "M"
        IsDel(line) == line # <<>> /\ ~IsNew(line) /\ Len(line) > 1 /\ line[2] = "D"
        zero == [modified |-> 0, new |-> 0, deleted |-> 0, staged |-> 0]
    IN  IF ~result.success THEN zero
        ELSE IF status_lines = <<>> THEN zero
        ELSE [modified |-> Count(IsMod), new |-> Count(IsNew),
              deleted |-> Count(IsDel), staged |-> Count(IsStaged)]

RECURSIVE UnstagedLoop(_, _, _)
\* the loop of get_unstaged_files over result.stdout.splitlines()
UnstagedLoop(lines, i, files) ==
    IF i > Len(lines) THEN files
    ELSE LET line == lines[i]
         IN  IF line = <<>> THEN UnstagedLoop(lines, i + 1, files)
             ELSE IF Len(line) >= 2 /\ line[1] = "?" /\ line[2] = "?"
                  THEN UnstagedLoop(lines, i + 1, Append(files, SliceFrom(line, 3)))
             ELSE IF Len(line) > 2 /\ line[2] # " "
                  THEN UnstagedLoop(lines, i + 1,
                                    Append(files, Strip(SliceFrom(line, 3))))
             ELSE UnstagedLoop(lines, i + 1, files)

\* GitRepository.get_unstaged_files, given the result of _run_command
UnstagedFiles(result, lim) ==
    IF ~result.success THEN <<>>
    ELSE Take(UnstagedLoop(SplitLines(result.stdout), 1, <<>>), lim)

GetChangesSummary ==
    /\ summary = <<>>
    /\ summary' = <<ChangesSummary(CompletedResult(status_ok, status_raw))>>
    /\ UNCHANGED <<status_raw, status_ok, limit, unstaged, callVars, composer, diffVars, repoVars, appVars>>

GetUnstagedFiles ==
    /\ unstaged = <<>>
    /\ unstaged' = <<UnstagedFiles(CompletedResult(status_ok, status_raw), limit)>>
    /\ UNCHANGED <<status_raw, status_ok, limit, summary, callVars, composer, diffVars, repoVars, appVars>>

\* ------------------------------------------------------------------------
\* GitResult and the worker threads
\* ------------------------------------------------------------------------
GitResult(ok, out, err) == [success |-> ok, stdout |-> out, stderr |-> err]

SecurityMsg == "Security Error: Only 'git' commands are allowed"
TimeoutMsg == "Git operation timed out after {timeout} seconds"
UnexpectedMsg == "An unexpected error occurred: {e}"
NotInstalledMsg == "Git is not installed or not in your PATH."
NoPatchMsg == "No patch content provided."
GitStderr == "(stderr of git)"

NoResult == GitResult(FALSE, "", "(no result)")

\* the concurrent queries of show_dashboard; each worker thread runs one call
DashboardQueries ==
    <<"get_branch_status", "get_changes_summary", "get_stashes", "get_recent_history">>
JobIds == 1..Len(DashboardQueries)

\* A thread's frame: the method (fn) and its arguments (arg), where it is (pc),
\* the command handed to _run_command (cmd), how many _run_command calls have
\* returned (idx), the argument vectors given to subprocess.run (log), the
\* earlier GitResults the method still holds (kept), the GitResult the method
\* ends with (ret), the input_data its calls of _run_command pass on to the
\* subprocess's standard input (<<>> for None), and for apply_patch whether patch_file_path is set and
\* whether the temporary file it created is on disk; outcome is how the last
\* call of _run_command of a finished method went.
IdleJob ==
    [fn |-> "idle", arg |-> <<>>, pc |-> "idle", cmd |-> <<>>, idx |-> 0,
     log |-> <<>>, kept |-> <<>>, ret |-> NoResult, input_data |-> <<>>,
     path_set |-> FALSE, file_exists |-> FALSE, outcome |-> "none"]

\* stash references: lines of `git stash list`, a bare identifier, and the
\* empty string
StashRefs == {"stash@{0}: WIP on main: 1a2b3c4 init", "stash@{1}", ""}

\* stash_ref.split(':')[0]: what stands before the first colon
StashId(stash_ref) ==
    CASE stash_ref = "stash@{0}: WIP on main: 1a2b3c4 init" -> "stash@{0}"
      [] stash_ref = "stash@{1}" -> "stash@{1}"
      [] stash_ref = "" -> ""

\* the commands of the methods that call _run_command unconditionally
Commands(fn, arg) ==
    CASE fn = "_run_command" -> <<arg>>
      [] fn = "checkout_branch" -> << <<"git", "checkout", arg[1]>> >>
      [] fn = "merge_branch" -> << <<"git", "merge", arg[1]>> >>
      [] fn = "get_branch_status" ->
            << <<"git", "fetch">>,
               <<"git", "rev-parse", "--abbrev-ref", "HEAD">>,
               <<"git", "status", "-sb", "--porcelain=v2">> >>
      [] fn = "get_changes_summary" -> << <<"git", "status", "--porcelain">> >>
      [] fn = "get_unstaged_files" -> << <<"git", "status", "--porcelain">> >>
      [] fn = "is_working_directory_clean" -> << <<"git", "status", "--porcelain">> >>
      [] fn = "get_staged_files" -> << <<"git", "diff", "--name-only", "--cached">> >>
      [] fn = "get_conflicting_files" ->
            << <<"git", "diff", "--name-only", "--diff-filter=U">> >>
      [] fn = "get_stashes" -> << <<"git", "stash", "list">> >>
      [] fn = "get_recent_history" ->
            << <<"git", "log", "-n7", "--oneline", "--pretty=format:%h - %s (%cr)">> >>
      [] fn = "get_file_diff" ->
            << <<"git", "diff", "--no-color">>
               \o (IF arg[2] = "staged" THEN <<"--cached">> ELSE <<>>)
               \o <<"--", arg[1]>> >>
      [] fn = "get_branches" ->
            << <<"git", "branch">>, <<"git", "branch", "-r">>,
               <<"git", "rev-parse", "--abbrev-ref", "HEAD">> >>
      [] fn = "get_remote_status" -> << <<"git", "remote", "-v">> >>
      [] fn = "create_stash" -> << <<"git", "stash", "push", "-m", arg[1]>> >>
      [] fn = "pull" -> << <<"git", "pull">> >>
      [] fn = "commit" -> << <<"git", "commit", "-F", "-">> >>
      [] fn = "apply_stash" -> << <<"git", "stash", "pop", StashId(arg[1])>> >>
      [] fn = "drop_stash" -> << <<"git", "stash", "drop", StashId(arg[1])>> >>
      [] fn = "set_git_config" -> << <<"git", "config", "--local", arg[1], arg[2]>> >>
      [] fn = "push" -> << <<"git", "remote", "-v">> >>

\* commit passes input_data=message, every other method leaves it None
InputData(fn, arg) == IF fn = "commit" THEN <<arg[1]>> ELSE <<>>

\* a thread entering method fn
NewJob(fn, arg) ==
    IF fn = "apply_patch"
    THEN [IdleJob EXCEPT !.fn = fn, !.arg = arg, !.pc = "ap_begin"]
    ELSE [IdleJob EXCEPT !.fn = fn, !.arg = arg, !.pc = "call",
                         !.cmd = Commands(fn, arg)[1],
                         !.input_data = InputData(fn, arg)]

\* ------------------------------------------------------------------------
\* The methods around _run_command: what a method does once _run_command
\* has returned `result` to it, up to its next call or its own return
\* ------------------------------------------------------------------------
\* ['git', 'apply', '--cached'] (+ '--reverse') + [patch_file_path]
ApplyCommand(reverse) ==
    <<"git", "apply", "--cached">>
    \o (IF reverse THEN <<"--reverse">> ELSE <<>>)
    \o <<"tmp.patch">>

\* apply_patch: finally: if patch_file_path and os.path.exists(...): os.unlink
ApplyPatchFinally(job, result) ==
    [job EXCEPT !.pc = "done", !.ret = result,
                !.file_exists = IF job.path_set THEN FALSE ELSE @]

\* the result of the k-th command is held in a local variable the method
\* reads after a later command: local_res and remote_res of get_branches
Keeps(fn, k) == fn = "get_branches" /\ k \in {1, 2}

\* ------------------------------------------------------------------------
\* GitRepository.push and get_remote_status
\* ------------------------------------------------------------------------
\* push has no parameter: arg holds the repository the call finds, that is
\* its remotes ("origin", "other", "none"), its HEAD ("branch", "detached",
\* "unborn") and the upstream configured for the current branch ("tracked",
\* "gone" when its remote-tracking ref is missing, "none")
PushRepos ==
    { r \in {"origin", "other", "none"} \X {"branch", "detached", "unborn"}
                                        \X {"tracked", "gone", "none"} :
        r[3] # "none" => (r[1] = "origin" /\ r[2] = "branch") }

NoOriginMsg == "No 'origin' remote configured for push or remote URL is missing."
NoBranchMsg == "Could not determine the current branch."

\* stdout of `git remote -v`
RemoteOriginOut == "origin\tURL (fetch)\norigin\tURL (push)"
RemoteOtherOut == "backup\tURL (fetch)\nbackup\tURL (push)"

\* result.stdout.splitlines(), each line cut at its runs of whitespace
RemoteLines(out) ==
    CASE out = RemoteOriginOut ->
             << <<"origin", "URL", "(fetch)">>, <<"origin", "URL", "(push)">> >>
      [] out = RemoteOtherOut ->
             << <<"backup", "URL", "(fetch)">>, <<"backup", "URL", "(push)">> >>
      [] OTHER -> <<>>

\* the group (fetch|push) of the pattern, <<>> when the line does not match
RemoteType(line) ==
    IF Len(line) < 3 THEN <<>>
    ELSE CASE line[3] = "(fetch)" -> <<"fetch">>
           [] line[3] = "(push)" -> <<"push">>
           [] OTHER -> <<>>

\* get_remote_status: the dict remotes[name][type] = url as a set of triples
RemoteStatus(result) ==
    IF result.success
    THEN LET lines == RemoteLines(result.stdout)
         IN  { <<lines[k][1], RemoteType(lines[k])[1], lines[k][2]>> :
                   k \in { i \in DOMAIN lines : RemoteType(lines[i]) # <<>> } }
    ELSE {}

\* 'origin' not in remotes or 'push' not in remotes['origin']
NoOriginPush(remotes) ==
    ~ \E r \in remotes : r[1] = "origin" /\ r[2] = "push"

\* get_current_branch
CurrentBranch(result) == IF result.success THEN result.stdout ELSE "UNKNOWN"

\* f'{current_branch}@{{u}}'
UpstreamOf(branch) ==
    CASE branch = "main" -> "main@{u}"
      [] branch = "HEAD" -> "HEAD@{u}"

\* what git prints when the command of a thread exits with code 0
Outputs(job) ==
    IF job.fn # "push" THEN {"", "output"}
    ELSE CASE job.idx = 0 ->
                  CASE job.arg[1] = "origin" -> {RemoteOriginOut}
                    [] job.arg[1] = "other" -> {RemoteOtherOut}
                    [] OTHER -> {""}
           [] job.idx = 1 ->
                  CASE job.arg[2] = "branch" -> {"main"}
                    [] job.arg[2] = "detached" -> {"HEAD"}
                    [] OTHER -> {}
           [] job.idx = 2 -> IF job.arg[3] = "tracked" THEN {"origin/main"} ELSE {}
           [] OTHER -> {""}

\* push, once its idx-th call of _run_command has returned `result`
PushAfter(job, result) ==
    LET n == job.idx + 1
        failFast(msg) == [job EXCEPT !.idx = n, !.pc = "done", !.cmd = <<>>,
                                     !.ret = GitResult(FALSE, "", msg)]
    IN  CASE job.idx = 0 ->
                 IF NoOriginPush(RemoteStatus(result))
                 THEN failFast(NoOriginMsg)
                 ELSE [job EXCEPT !.idx = n, !.pc = "call",
                                  !.cmd = <<"git", "rev-parse", "--abbrev-ref", "HEAD">>]
          [] job.idx = 1 ->
                 IF CurrentBranch(result) = "UNKNOWN"
                 THEN failFast(NoBranchMsg)
                 ELSE [job EXCEPT !.idx = n, !.pc = "call",
                                  !.kept = <<result>>,
                                  !.cmd = <<"git", "rev-parse", "--abbrev-ref",
                                            UpstreamOf(CurrentBranch(result))>>]
          [] job.idx = 2 ->
                 [job EXCEPT !.idx = n, !.pc = "call",
                             !.cmd = IF ~result.success
                                     THEN <<"git", "push", "--set-upstream", "origin",
                                            CurrentBranch(job.kept[1])>>
                                     ELSE <<"git", "push">>]
          [] OTHER ->
                 [job EXCEPT !.idx = n, !.pc = "done", !.cmd = <<>>, !.ret = result]

MethodAfter(job, result) ==
    IF job.fn = "apply_patch"
    THEN ApplyPatchFinally([job EXCEPT !.idx = @ + 1], result)
    ELSE IF job.fn = "push" THEN PushAfter(job, result)
    ELSE LET cmds == Commands(job.fn, job.arg)
             n == job.idx + 1
         IN  IF n < Len(cmds)
             THEN [job EXCEPT !.idx = n, !.pc = "call", !.cmd = cmds[n + 1],
                              !.kept = IF Keeps(job.fn, n)
                                       THEN Append(@, result) ELSE @]
             ELSE [job EXCEPT !.idx = n, !.pc = "done", !.cmd = <<>>,
                              !.ret = result]

\* the RuntimeError of _run_command: apply_patch catches it (except
\* Exception), every other method lets it pass
MethodAfterRaise(job) ==
    IF job.fn = "apply_patch"
    THEN ApplyPatchFinally(job, GitResult(FALSE, "", NotInstalledMsg))
    ELSE [job EXCEPT !.pc = "raised", !.cmd = <<>>]

\* os.path.exists(os.path.join(self.path, '.git', 'MERGE_HEAD'))
check_merge_status == merge_head

\* the method has ended on a call of _run_command that went as `outcome`
Ended(job, outcome) ==
    IF job.pc \in {"done", "raised"} THEN [job EXCEPT !.outcome = outcome] ELSE job

\* ------------------------------------------------------------------------
\* GitRepository._run_command
\* ------------------------------------------------------------------------
AllowedAfterFilter(command) ==
    LET NonEmpty(c) == c # ""
        kept == SelectSeq(command, NonEmpty)
    IN  kept # <<>> /\ kept[1] = "git"

\* not (not command or command[0] != 'git')
Allowed(command) == command # <<>> /\ command[1] = "git"

\* command_list = [str(c) for c in command if c]
CommandList(command) ==
    LET NonEmpty(c) == c # "" IN SelectSeq(command, NonEmpty)

\* the allow-list refuses the command: no subprocess, a fixed message
RunCommandReject(j) ==
    /\ jobs[j].pc = "call"
    /\ ~Allowed(jobs[j].cmd)
    /\ jobs' = [jobs EXCEPT
                   ![j] = Ended(MethodAfter(jobs[j], GitResult(FALSE, "", SecurityMsg)),
                         "rejected")]
    /\ UNCHANGED <<merge_head, in_merge_state, otherVars>>

\* subprocess.run starts the process
RunCommandSpawn(j) ==
    /\ jobs[j].pc = "call"
    /\ Allowed(jobs[j].cmd)
    /\ jobs' = [jobs EXCEPT ![j].pc = "running",
                            ![j].log = Append(@, CommandList(jobs[j].cmd))]
    /\ UNCHANGED <<merge_head, in_merge_state, otherVars>>

\* subprocess.run raises FileNotFoundError: RuntimeError leaves _run_command
RunCommandNotFound(j) ==
    /\ jobs[j].pc = "call"
    /\ Allowed(jobs[j].cmd)
    /\ jobs' = [jobs EXCEPT ![j] = Ended(MethodAfterRaise(jobs[j]), "not_found")]
    /\ UNCHANGED <<merge_head, in_merge_state, otherVars>>

\* subprocess.run raises another exception before the process runs
RunCommandOSError(j) ==
    /\ jobs[j].pc = "call"
    /\ Allowed(jobs[j].cmd)
    /\ jobs' = [jobs EXCEPT
                   ![j] = Ended(MethodAfter(jobs[j], GitResult(FALSE, "", UnexpectedMsg)),
                         "failed_before_start")]
    /\ UNCHANGED <<merge_head, in_merge_state, otherVars>>

\* while the process runs, MERGE_HEAD may be created or removed
SubprocessTouchesMarker(j) ==
    /\ jobs[j].pc = "running"
    /\ merge_head' = ~merge_head
    /\ UNCHANGED <<in_merge_state, jobs, otherVars>>

\* the process exits with code 0: check_merge_status, success
RunCommandExitZero(j) ==
    /\ jobs[j].pc = "running"
    /\ \E out \in Outputs(jobs[j]) :
           jobs' = [jobs EXCEPT
                       ![j] = Ended(MethodAfter(jobs[j], GitResult(TRUE, out, "")),
                         "exit_zero")]
    /\ in_merge_state' = check_merge_status
    /\ UNCHANGED <<merge_head, otherVars>>

\* the process exits with another code: check_merge_status, failure with
\* the captured stderr
RunCommandExitNonzero(j) ==
    /\ jobs[j].pc = "running"
    /\ jobs' = [jobs EXCEPT
                   ![j] = Ended(MethodAfter(jobs[j], GitResult(FALSE, "", GitStderr)),
                         "exit_nonzero")]
    /\ in_merge_state' = check_merge_status
    /\ UNCHANGED <<merge_head, otherVars>>

\* variant: the TimeoutExpired of subprocess.run is not caught
RunCommandTimeoutRaises(j) ==
    /\ jobs[j].pc = "running"
    /\ jobs' = [jobs EXCEPT ![j] = Ended([jobs[j] EXCEPT !.pc = "raised",
                                                         !.cmd = <<>>],
                                         "timeout")]
    /\ UNCHANGED <<merge_head, in_merge_state, otherVars>>

\* subprocess.TimeoutExpired
RunCommandTimeout(j) ==
    /\ jobs[j].pc = "running"
    /\ jobs' = [jobs EXCEPT
                   ![j] = Ended(MethodAfter(jobs[j], GitResult(FALSE, "", TimeoutMsg)),
                         "timeout")]
    /\ UNCHANGED <<merge_head, in_merge_state, otherVars>>

\* any other exception of subprocess.run after the process started
RunCommandFails(j) ==
    /\ jobs[j].pc = "running"
    /\ jobs' = [jobs EXCEPT
                   ![j] = Ended(MethodAfter(jobs[j], GitResult(FALSE, "", UnexpectedMsg)),
                         "failed")]
    /\ UNCHANGED <<merge_head, in_merge_state, otherVars>>

\* ------------------------------------------------------------------------
\* GitRepository.apply_patch, up to its call of _run_command
\* ------------------------------------------------------------------------
\* variant: empty patch content is written to a file and applied
ApplyPatchEmptyRuns(j) ==
    /\ jobs[j].pc = "ap_begin"
    /\ jobs[j].arg[1] = ""
    /\ jobs' = [jobs EXCEPT
                   ![j].pc = "call",
                   ![j].file_exists = TRUE,
                   ![j].path_set = TRUE,
                   ![j].cmd = ApplyCommand(jobs[j].arg[2] = "reverse")]
    /\ UNCHANGED <<merge_head, in_merge_state, otherVars>>

\* if not patch_content: return
ApplyPatchEmpty(j) ==
    /\ jobs[j].pc = "ap_begin"
    /\ jobs[j].arg[1] = ""
    /\ jobs' = [jobs EXCEPT ![j].pc = "done",
                            ![j].ret = GitResult(FALSE, "", NoPatchMsg)]
    /\ UNCHANGED <<merge_head, in_merge_state, otherVars>>

\* NamedTemporaryFile itself raises, no file was made; except, finally
ApplyPatchCreateFails(j) ==
    /\ jobs[j].pc = "ap_begin"
    /\ jobs[j].arg[1] # ""
    /\ jobs' = [jobs EXCEPT
                   ![j] = ApplyPatchFinally(jobs[j], GitResult(FALSE, "", "str(e)"))]
    /\ UNCHANGED <<merge_head, in_merge_state, otherVars>>

\* the file is made (delete=False) and patch_file.write raises before
\* patch_file_path is assigned; except, finally
ApplyPatchWriteFails(j) ==
    /\ jobs[j].pc = "ap_begin"
    /\ jobs[j].arg[1] # ""
    /\ jobs' = [jobs EXCEPT
                   ![j] = ApplyPatchFinally([jobs[j] EXCEPT !.file_exists = TRUE],
                                            GitResult(FALSE, "", "str(e)"))]
    /\ UNCHANGED <<merge_head, in_merge_state, otherVars>>

\* the patch is written, the command is built and handed to _run_command
ApplyPatchWritten(j) ==
    /\ jobs[j].pc = "ap_begin"
    /\ jobs[j].arg[1] # ""
    /\ jobs' = [jobs EXCEPT
                   ![j].pc = "call",
                   ![j].file_exists = TRUE,
                   ![j].path_set = TRUE,
                   ![j].cmd = ApplyCommand(jobs[j].arg[2] = "reverse")]
    /\ UNCHANGED <<merge_head, in_merge_state, otherVars>>

\* one step of thread j
JobStep(j) ==
    \/ RunCommandReject(j)
    \/ RunCommandSpawn(j)
    \/ RunCommandNotFound(j)
    \/ RunCommandOSError(j)
    \/ SubprocessTouchesMarker(j)
    \/ RunCommandExitZero(j)
    \/ RunCommandExitNonzero(j)
    \/ RunCommandTimeout(j)
    \/ RunCommandFails(j)
    \/ ApplyPatchEmpty(j)
    \/ ApplyPatchCreateFails(j)
    \/ ApplyPatchWriteFails(j)
    \/ ApplyPatchWritten(j)

\* ------------------------------------------------------------------------
\* A caller of the repository layer: one call at a time, any arguments
\* ------------------------------------------------------------------------
SampleCommands ==
    { <<>>,
      <<"curl", "evil">>,
      <<"", "git", "status">>,
      <<"git", "status", "--porcelain">>,
      <<"git", "merge", "dev">> }

SamplePatches == {"", "header\n@@ hunk"}

CallRunCommand ==
    /\ jobs[1].pc = "idle"
    /\ \E command \in SampleCommands :
           jobs' = [jobs EXCEPT ![1] = NewJob("_run_command", command)]
    /\ UNCHANGED <<merge_head, in_merge_state, otherVars>>

CallApplyPatch ==
    /\ jobs[1].pc = "idle"
    /\ \E patch_content \in SamplePatches, direction \in {"forward", "reverse"} :
           jobs' = [jobs EXCEPT
                       ![1] = NewJob("apply_patch", <<patch_content, direction>>)]
    /\ UNCHANGED <<merge_head, in_merge_state, otherVars>>

\* push in any of the sample repositories
CallPush ==
    /\ jobs[1].pc = "idle"
    /\ \E repo \in PushRepos :
           jobs' = [jobs EXCEPT ![1] = NewJob("push", repo)]
    /\ UNCHANGED <<merge_head, in_merge_state, otherVars>>

\* the stash dialog, the stash tray and the settings view call with what
\* the user typed or picked; the text fields may be empty
ValueCalls ==
    {<<"create_stash", <<message>>>> : message \in {"", "wip"}}
    \cup {<<fn, <<stash_ref>>>> : fn \in {"apply_stash", "drop_stash"},
                                  stash_ref \in StashRefs}
    \cup {<<"set_git_config", <<"user.name", value>>>> : value \in {"", "Ada"}}

CallWithValue ==
    /\ jobs[1].pc = "idle"
    /\ \E call \in ValueCalls :
           jobs' = [jobs EXCEPT ![1] = NewJob(call[1], call[2])]
    /\ UNCHANGED <<merge_head, in_merge_state, otherVars>>

\* the caller has the return value (or the exception) and may call again
CallReturns ==
    /\ jobs[1].pc \in {"done", "raised"}
    /\ jobs' = [jobs EXCEPT ![1] = IdleJob]
    /\ UNCHANGED <<merge_head, in_merge_state, otherVars>>

\* ------------------------------------------------------------------------
\* Inputs
\* ------------------------------------------------------------------------
DiffChars == {"@", NL, "x"}
DiffTexts == SeqsUpTo(DiffChars, MaxDiffLen)

\* what `git diff` prints for a file, stripped: a header line and two hunks,
\* and a text without a hunk (a binary file)
SampleDiffs ==
    { <<"x", NL, "@", "@", NL, "x", NL, "@", "@">>,
      <<"x">> }

\* f"Error getting diff:\n{result.stderr}"
ErrorDiffText == <<"x", NL, "x">>

\* one porcelain v1 line: index column, work-tree column, separator, path
StatusCodes == {<<" ", "M">>, <<" ", "D">>, <<"M", " ">>, <<"M", "M">>,
                <<"A", " ">>, <<"?", "?">>}
StatusPaths == {<<"a">>, <<"b">>}
StatusLines == {code \o <<" ">> \o path : code \in StatusCodes, path \in StatusPaths}

RECURSIVE Unlines(_)
\* git terminates every status line with a line feed
Unlines(lines) ==
    IF lines = <<>> THEN <<>> ELSE lines[1] \o <<NL>> \o Unlines(Tail(lines))

StatusOutputs == {Unlines(ls) : ls \in SeqsUpTo(StatusLines, MaxStatusLines)}

DiffIdle ==
    /\ diff_text = <<>>
    /\ is_staged = FALSE
    /\ hunks = <<>>
    /\ file_header = <<>>
    /\ controls = "unbuilt"

StatusIdle ==
    /\ status_raw = <<>>
    /\ status_ok = TRUE
    /\ limit = 0
    /\ summary = <<>>
    /\ unstaged = <<>>

\* no function is being applied
CallIdle ==
    /\ args = <<>>
    /\ returned = <<>>

RepoIdle ==
    /\ merge_head = FALSE
    /\ in_merge_state = FALSE
    /\ jobs = [j \in JobIds |-> IdleJob]

\* the composer as constructed, no notice on the page
ComposerIdle ==
    composer = [ai_button_disabled |-> FALSE, populated |-> FALSE, snack_bar |-> ""]

\* no repository is open: the welcome view, no handler running
AppIdle ==
    /\ ComposerIdle
    /\ task = [name |-> "", pc |-> "returned", arg |-> <<>>, patch |-> <<>>, note |-> ""]
    /\ view = "welcome"
    /\ buttons = {}
    /\ dialog = {}

\* ------------------------------------------------------------------------
\* Specification of the patch engine: a diff view constructed on any text
\* ------------------------------------------------------------------------
DiffInit ==
    /\ diff_text \in DiffTexts
    /\ is_staged \in BOOLEAN
    /\ hunks = <<>>
    /\ file_header = <<>>
    /\ controls = "unbuilt"
    /\ StatusIdle
    /\ CallIdle
    /\ RepoIdle
    /\ AppIdle

DiffNext == BuildView

SpecDiff == DiffInit /\ [][DiffNext]_vars

\* ------------------------------------------------------------------------
\* Specification of the status queries: any porcelain output, any limit
\* ------------------------------------------------------------------------
StatusInit ==
    /\ status_raw \in StatusOutputs
    /\ status_ok \in BOOLEAN
    /\ limit \in 0..MaxStatusLines
    /\ summary = <<>>
    /\ unstaged = <<>>
    /\ CallIdle
    /\ DiffIdle
    /\ RepoIdle
    /\ AppIdle

StatusNext ==
    \/ GetChangesSummary
    \/ GetUnstagedFiles

SpecStatus == StatusInit /\ [][StatusNext]_vars

\* ------------------------------------------------------------------------
\* Specification of the repository layer under one sequential caller.
\* The constructor has run: in_merge_state is the marker's existence.
\* ------------------------------------------------------------------------
ExecInit ==
    /\ merge_head \in BOOLEAN
    /\ in_merge_state = merge_head
    /\ jobs = [j \in JobIds |-> IdleJob]
    /\ DiffIdle
    /\ StatusIdle
    /\ CallIdle
    /\ AppIdle

ExecNext ==
    \/ CallRunCommand
    \/ CallApplyPatch
    \/ CallPush
    \/ CallWithValue
    \/ CallReturns
    \/ \E j \in JobIds : JobStep(j)

SpecExec == ExecInit /\ [][ExecNext]_vars

\* ------------------------------------------------------------------------
\* GitRocketApp: the handlers of main.py behind the dashboard, the staging
\* view with its diff view, and the branch view (checkout, merge).  The event
\* loop runs one handler (task) to its end before the next click is taken,
\* and a click is taken only when no worker thread is busy; the program
\* itself allows more interleavings than that.
\* ------------------------------------------------------------------------
Task(name, arg) ==
    [name |-> name, pc |-> "start", arg |-> arg, patch |-> <<>>, note |-> ""]

Button(handler, data) == [handler |-> handler, data |-> data]

Finished == task.pc \in {"returned", "raised"}

Quiet == \A j \in JobIds : jobs[j].pc \in {"idle", "done", "raised"}

AllIdle == [j \in JobIds |-> IdleJob]

\* the handler is at pc of handler name
At(name, pc) == task.name = name /\ task.pc = pc

\* await of the future of thread j has a value: the thread is released
Release(j) == jobs' = [jobs EXCEPT ![j] = IdleJob]

\* set_view replaces the view, the staging view's diff container with it
SetView(v, bs) ==
    /\ view' = v
    /\ buttons' = bs
    /\ diff_text' = <<>>
    /\ is_staged' = FALSE
    /\ hunks' = <<>>
    /\ file_header' = <<>>
    /\ controls' = "unbuilt"

\* a text stands for a non-empty stdout of git
NonEmptyOutput(result) == result.success /\ result.stdout # ""

\* the user clicks a button of the open dialog, or of the view
Click ==
    /\ Finished
    /\ Quiet
    /\ \E b \in (IF dialog # {} THEN dialog ELSE buttons) :
           task' = Task(b.handler, b.data)
    /\ jobs' = AllIdle
    /\ UNCHANGED <<view, buttons, dialog, diffVars, statusVars, callVars, composer,
                   merge_head, in_merge_state>>

\* the future the handler awaits raised RuntimeError (git is not installed);
\* none of these handlers catches it.  show_dashboard awaits its four futures
\* in order, asyncio.gather and a single await take the first exception.
AwaitRaises ==
    /\ ~Finished
    /\ \E j \in JobIds :
           /\ jobs[j].pc = "raised"
           /\ At("show_dashboard", "await_all") =>
                  \A i \in 1..(j - 1) : jobs[i].pc = "done"
    /\ task' = [task EXCEPT !.pc = "raised", !.note = "RuntimeError"]
    /\ UNCHANGED <<view, buttons, dialog, diffVars, statusVars, callVars, composer, repoVars>>

\* ---- show_dashboard ----
\* the loading view, then four run_in_executor calls before the first await
ShowDashboardStart ==
    /\ At("show_dashboard", "start")
    /\ SetView("loading", {})
    /\ jobs' = [j \in JobIds |-> NewJob(DashboardQueries[j], <<>>)]
    /\ task' = [task EXCEPT !.pc = "await_all"]
    /\ UNCHANGED <<dialog, statusVars, callVars, composer, merge_head, in_merge_state>>

\* all four values are in: the dashboard, "Review Changes" enabled unless
\* changes_count == 0
ShowDashboardLoaded ==
    /\ At("show_dashboard", "await_all")
    /\ \A j \in JobIds : jobs[j].pc = "done"
    /\ SetView("dashboard",
               {Button("run_pull", <<>>), Button("show_branch_management_view", <<>>)}
               \cup (IF NonEmptyOutput(jobs[2].ret)
                     THEN {Button("show_staging_view", <<>>)} ELSE {}))
    /\ jobs' = AllIdle
    /\ task' = [task EXCEPT !.pc = "returned"]
    /\ UNCHANGED <<dialog, statusVars, callVars, composer, merge_head, in_merge_state>>

\* ---- show_staging_view, update_staging_lists ----
ShowStagingViewStart ==
    /\ At("show_staging_view", "start")
    /\ SetView("staging", {Button("show_dashboard", <<>>),
                           Button("handle_compose_click", <<>>)})
    /\ jobs' = [jobs EXCEPT ![1] = NewJob("get_unstaged_files", <<"200">>),
                            ![2] = NewJob("get_staged_files", <<"200">>)]
    /\ task' = [task EXCEPT !.pc = "await_lists"]
    /\ UNCHANGED <<dialog, statusVars, callVars, composer, merge_head, in_merge_state>>

\* asyncio.gather has both lists: one file button per listed file
UpdateStagingLists ==
    /\ At("show_staging_view", "await_lists")
    /\ jobs[1].pc = "done" /\ jobs[2].pc = "done"
    /\ buttons' = {Button("show_dashboard", <<>>), Button("handle_compose_click", <<>>)}
           \cup (IF NonEmptyOutput(jobs[1].ret)
                 THEN {Button("show_file_diff", <<"file", "unstaged">>)} ELSE {})
           \cup (IF NonEmptyOutput(jobs[2].ret)
                 THEN {Button("show_file_diff", <<"file", "staged">>)} ELSE {})
    /\ jobs' = AllIdle
    /\ task' = [task EXCEPT !.pc = "returned"]
    /\ UNCHANGED <<view, dialog, diffVars, statusVars, callVars, composer, merge_head, in_merge_state>>

\* ---- show_file_diff ----
ShowFileDiffStart ==
    /\ At("show_file_diff", "start")
    /\ jobs' = [jobs EXCEPT ![1] = NewJob("get_file_diff", task.arg)]
    /\ task' = [task EXCEPT !.pc = "await_diff"]
    /\ UNCHANGED <<view, buttons, dialog, diffVars, statusVars, callVars, composer,
                   merge_head, in_merge_state>>

\* get_file_diff returns the stdout, or an error text when git failed; an
\* empty text shows a label, any other text an InteractiveDiffView
ShowFileDiffLoaded ==
    /\ At("show_file_diff", "await_diff")
    /\ jobs[1].pc = "done"
    /\ \E text \in (IF ~jobs[1].ret.success THEN {ErrorDiffText}
                    ELSE IF jobs[1].ret.stdout = "" THEN {<<>>}
                    ELSE SampleDiffs) :
           /\ diff_text' = text
           /\ is_staged' = (task.arg[2] = "staged")
           /\ file_header' = IF text = <<>> THEN <<>> ELSE ViewOf(text).file_header
           /\ hunks' = IF text = <<>> THEN <<>> ELSE ViewOf(text).hunks
           /\ controls' = IF text = <<>> THEN "no_changes" ELSE ViewOf(text).controls
    /\ Release(1)
    /\ task' = [task EXCEPT !.pc = "returned"]
    /\ UNCHANGED <<view, buttons, dialog, statusVars, callVars, composer, merge_head, in_merge_state>>

\* ---- InteractiveDiffView in the staging view ----
\* the user ticks or unticks the checkbox of a hunk card
ToggleHunk ==
    /\ Finished /\ Quiet
    /\ dialog = {}
    /\ controls = "hunk_cards"
    /\ \E i \in 1..Len(hunks) : hunks' = [hunks EXCEPT ![i].chk = ~@]
    /\ UNCHANGED <<diff_text, is_staged, file_header, controls, statusVars, callVars, composer,
                   repoVars, appVars>>

\* variant: the patch is built from every hunk once any is selected
HandleApplyClickAllHunks ==
    /\ Finished /\ Quiet
    /\ dialog = {}
    /\ controls = "hunk_cards"
    /\ LET Ticked(h) == h.chk
           texts == [i \in 1..Len(hunks) |-> hunks[i].text]
       IN  task' = IF SelectSeq(hunks, Ticked) = <<>>
                   THEN [Task("_handle_apply_click", <<>>) EXCEPT !.pc = "returned"]
                   ELSE [Task("handle_apply", <<>>) EXCEPT
                            !.patch = file_header \o <<NL>> \o Join(texts)]
    /\ jobs' = AllIdle
    /\ UNCHANGED <<view, buttons, dialog, diffVars, statusVars, callVars, composer,
                   merge_head, in_merge_state>>

\* _handle_apply_click: nothing selected returns, otherwise the patch is
\* built and on_apply (handle_apply of show_file_diff) is awaited
HandleApplyClick ==
    /\ Finished /\ Quiet
    /\ dialog = {}
    /\ controls = "hunk_cards"
    /\ LET Ticked(h) == h.chk
           selected_hunks == SelectSeq(hunks, Ticked)
           texts == [i \in 1..Len(selected_hunks) |-> selected_hunks[i].text]
       IN  task' = IF selected_hunks = <<>>
                   THEN [Task("_handle_apply_click", <<>>) EXCEPT !.pc = "returned"]
                   ELSE [Task("handle_apply", <<>>) EXCEPT
                            !.patch = file_header \o <<NL>> \o Join(texts)]
    /\ jobs' = AllIdle
    /\ UNCHANGED <<view, buttons, dialog, diffVars, statusVars, callVars, composer,
                   merge_head, in_merge_state>>

\* run_git_op(self, func, *args): the keyword arguments it can be called with
RunGitOpKeywords == {}

RunGitOpAccepts(keywords) == keywords \subseteq RunGitOpKeywords

\* handle_apply: result = await self.run_git_op(self.repo.apply_patch,
\* patch_content, reverse=is_staged).  The call raises TypeError when
\* run_git_op takes no keyword 'reverse'; the rest of handle_apply (the error
\* message, update_staging_lists, show_file_diff) follows only a call that
\* was accepted.
HandleApply ==
    /\ At("handle_apply", "start")
    /\ IF RunGitOpAccepts({"reverse"})
       THEN /\ jobs' = [jobs EXCEPT ![1] =
                           NewJob("apply_patch",
                                  <<"patch", IF is_staged THEN "reverse" ELSE "forward">>)]
            /\ task' = [task EXCEPT !.pc = "await_apply"]
       ELSE /\ jobs' = jobs
            /\ task' = [task EXCEPT !.pc = "raised", !.note = "TypeError"]
    /\ UNCHANGED <<view, buttons, dialog, diffVars, statusVars, callVars, composer,
                   merge_head, in_merge_state>>

\* ---- branch names ----
\* the spelling of the branch names of the model
Spell ==
    [n \in {"main", "dev", "(HEAD detached at 1a2b3c)"} |->
        CASE n = "main" -> <<"m", "a", "i", "n">>
          [] n = "dev" -> <<"d", "e", "v">>
          [] n = "(HEAD detached at 1a2b3c)" ->
                <<"(", "H", "E", "A", "D", " ", "d", "e", "t", "a", "c", "h", "e", "d",
                  " ", "a", "t", " ", "1", "a", "2", "b", "3", "c", ")">>]

Named(chars) == CHOOSE n \in DOMAIN Spell : Spell[n] = chars

\* what `git branch` and `git rev-parse --abbrev-ref HEAD` print: on a
\* branch, and with a detached HEAD
BranchOutputs ==
    { [branch |-> <<" ", " ">> \o Spell["dev"] \o <<NL, "*", " ">> \o Spell["main"] \o <<NL>>,
       head |-> "main"],
      [branch |-> <<"*", " ">> \o Spell["(HEAD detached at 1a2b3c)"]
                  \o <<NL, " ", " ">> \o Spell["main"] \o <<NL>>,
       head |-> "HEAD"] }

RECURSIVE RemoveCurrentMark(_)
\* b.replace('* ', '')
RemoveCurrentMark(b) ==
    IF b = <<>> THEN <<>>
    ELSE IF Len(b) >= 2 /\ b[1] = "*" /\ b[2] = " "
         THEN RemoveCurrentMark(SubSeq(b, 3, Len(b)))
         ELSE <<b[1]>> \o RemoveCurrentMark(Tail(b))

\* get_branches: local = [b.strip().replace('* ', '') for b in
\* local_res.stdout.splitlines()], of the stripped stdout of `git branch`
LocalBranches(raw) ==
    LET lines == SplitLines(Strip(raw))
    IN  [i \in 1..Len(lines) |-> Named(RemoveCurrentMark(Strip(lines[i])))]

Contains(text, pattern) ==
    \E i \in 1..(Len(text) - Len(pattern) + 1) :
        SubSeq(text, i, i + Len(pattern) - 1) = pattern

\* the characters below 32 that a text of the model can hold
ControlChars == {NL, "\t", "\r"}

\* variant: a name of 100 characters is already too long
validate_branch_name_below_100(branch_name) ==
    /\ ~(branch_name = <<>> \/ Len(branch_name) >= 100)
    /\ ~\E pattern \in {<<".", ".">>, <<".", "l", "o", "c", "k">>, <<"@", "{">>, <<"\\">>} :
            Contains(branch_name, pattern)
    /\ ~(branch_name[1] = "-" \/ branch_name[Len(branch_name)] = ".")
    /\ ~\E i \in 1..Len(branch_name) :
            IsSpace(branch_name[i]) \/ branch_name[i] \in ControlChars
    /\ ~\E i \in 1..Len(branch_name) :
            branch_name[i] \in {"~", "^", ":", "?", "*", "["}

validate_branch_name(branch_name) ==
    /\ ~(branch_name = <<>> \/ Len(branch_name) > 100)
    /\ ~\E pattern \in {<<".", ".">>, <<".", "l", "o", "c", "k">>, <<"@", "{">>, <<"\\">>} :
            Contains(branch_name, pattern)
    /\ ~(branch_name[1] = "-" \/ branch_name[Len(branch_name)] = ".")
    /\ ~\E i \in 1..Len(branch_name) :
            IsSpace(branch_name[i]) \/ branch_name[i] \in ControlChars
    /\ ~\E i \in 1..Len(branch_name) :
            branch_name[i] \in {"~", "^", ":", "?", "*", "["}

\* ---- show_branch_management_view ----
ShowBranchViewStart ==
    /\ At("show_branch_management_view", "start")
    /\ jobs' = [jobs EXCEPT ![1] = NewJob("get_branches", <<>>)]
    /\ task' = [task EXCEPT !.pc = "await_branches"]
    /\ UNCHANGED <<view, buttons, dialog, diffVars, statusVars, callVars, composer,
                   merge_head, in_merge_state>>

\* local_branches, remote_branches_list, current_branch = await
\* branches_future; then remotes_future is started.  task.arg holds the local
\* branches that are not the current one.
ShowBranchViewBranches ==
    /\ At("show_branch_management_view", "await_branches")
    /\ jobs[1].pc = "done"
    /\ \E out \in BranchOutputs :
           LET local_res == jobs[1].kept[1]
               local == IF ~local_res.success \/ local_res.stdout = "" THEN <<>>
                        ELSE LocalBranches(out.branch)
               current_branch == IF jobs[1].ret.success THEN out.head ELSE "UNKNOWN"
               IsOther(b) == b # current_branch
           IN  task' = [task EXCEPT !.pc = "await_remotes",
                                    !.arg = SelectSeq(local, IsOther)]
    /\ jobs' = [jobs EXCEPT ![1] = NewJob("get_remote_status", <<>>)]
    /\ UNCHANGED <<view, buttons, dialog, diffVars, statusVars, callVars, composer,
                   merge_head, in_merge_state>>

\* the branch view: Checkout and Merge buttons on every local branch that
\* is not the current one
ShowBranchViewLoaded ==
    /\ At("show_branch_management_view", "await_remotes")
    /\ jobs[1].pc = "done"
    /\ SetView("branches",
               {Button("show_dashboard", <<>>)}
               \cup {Button("run_checkout", <<task.arg[i]>>) : i \in 1..Len(task.arg)}
               \cup {Button("run_merge", <<task.arg[i]>>) : i \in 1..Len(task.arg)})
    /\ Release(1)
    /\ task' = [task EXCEPT !.pc = "returned"]
    /\ UNCHANGED <<dialog, statusVars, callVars, composer, merge_head, in_merge_state>>

\* ---- run_checkout, _pre_operation_check_and_run, _do_checkout ----
RunCheckoutStart ==
    /\ At("run_checkout", "start")
    /\ jobs' = [jobs EXCEPT ![1] = NewJob("is_working_directory_clean", <<>>)]
    /\ task' = [task EXCEPT !.pc = "await_clean"]
    /\ UNCHANGED <<view, buttons, dialog, diffVars, statusVars, callVars, composer,
                   merge_head, in_merge_state>>

\* run_pull: _pre_operation_check_and_run(self._do_pull(), "pull")
RunPullStart ==
    /\ At("run_pull", "start")
    /\ jobs' = [jobs EXCEPT ![1] = NewJob("is_working_directory_clean", <<>>)]
    /\ task' = [task EXCEPT !.pc = "await_clean"]
    /\ UNCHANGED <<view, buttons, dialog, diffVars, statusVars, callVars, composer,
                   merge_head, in_merge_state>>

\* is_clean: result.success and not result.stdout
IsClean(result) == result.success /\ result.stdout = ""

\* operation_name and the data of operation_coro. run_pull and run_checkout
\* hold them as the handler's own arguments; stash_and_continue holds what
\* the dialog's button kept: <<operation_name, why the dialog was shown>>
\* followed by the data of the operation
OperationName ==
    CASE task.name = "run_pull" -> "pull"
      [] task.name = "run_checkout" -> "checkout"
      [] OTHER -> task.arg[1]

OperationData ==
    IF task.name = "stash_and_continue" THEN SubSeq(task.arg, 3, Len(task.arg))
    ELSE task.arg

\* _do_checkout up to its await: the loading view, then checkout_branch
DoCheckout ==
    /\ SetView("loading", {})
    /\ jobs' = [jobs EXCEPT ![1] = NewJob("checkout_branch", <<OperationData[1]>>)]
    /\ task' = [task EXCEPT !.pc = "await_checkout"]

\* _do_pull up to its await: the loading view, then pull
DoPull ==
    /\ SetView("loading", {})
    /\ jobs' = [jobs EXCEPT ![1] = NewJob("pull", <<>>)]
    /\ task' = [task EXCEPT !.pc = "await_pull"]

\* await operation_coro
OperationCoro == IF OperationName = "pull" THEN DoPull ELSE DoCheckout

\* the variant that runs the operation whatever the check returned
PreCheckIgnored ==
    /\ task.name \in {"run_checkout", "run_pull"}
    /\ task.pc = "await_clean"
    /\ jobs[1].pc = "done"
    /\ OperationCoro
    /\ UNCHANGED <<dialog, statusVars, callVars, composer, merge_head, in_merge_state>>

PreCheckClean ==
    /\ task.name \in {"run_checkout", "run_pull"}
    /\ task.pc = "await_clean"
    /\ jobs[1].pc = "done"
    /\ IsClean(jobs[1].ret)
    /\ OperationCoro
    /\ UNCHANGED <<dialog, statusVars, callVars, composer, merge_head, in_merge_state>>

\* uncommitted changes, or a status query that failed: the dialog with
\* Stash and Continue / Cancel
PreCheckDirty ==
    /\ task.name \in {"run_checkout", "run_pull"}
    /\ task.pc = "await_clean"
    /\ jobs[1].pc = "done"
    /\ ~IsClean(jobs[1].ret)
    /\ dialog' = {Button("stash_and_continue",
                         <<OperationName,
                           IF jobs[1].ret.success THEN "dirty" ELSE "query_failed">>
                         \o task.arg),
                  Button("close_dialog", <<>>)}
    /\ Release(1)
    /\ task' = [task EXCEPT !.pc = "returned"]
    /\ UNCHANGED <<view, buttons, diffVars, statusVars, callVars, composer, merge_head, in_merge_state>>

CloseDialog ==
    /\ At("close_dialog", "start")
    /\ dialog' = {}
    /\ task' = [task EXCEPT !.pc = "returned"]
    /\ UNCHANGED <<view, buttons, diffVars, statusVars, callVars, composer, repoVars>>

StashAndContinueStart ==
    /\ At("stash_and_continue", "start")
    /\ dialog' = {}
    /\ jobs' = [jobs EXCEPT ![1] =
                   NewJob("create_stash",
                          <<IF OperationName = "pull" THEN "Auto-stash before pull"
                            ELSE "Auto-stash before checkout">>)]
    /\ task' = [task EXCEPT !.pc = "await_stash"]
    /\ UNCHANGED <<view, buttons, diffVars, statusVars, callVars, composer, merge_head, in_merge_state>>

StashedContinue ==
    /\ At("stash_and_continue", "await_stash")
    /\ jobs[1].pc = "done"
    /\ jobs[1].ret.success
    /\ OperationCoro
    /\ UNCHANGED <<dialog, statusVars, callVars, composer, merge_head, in_merge_state>>

StashFailed ==
    /\ At("stash_and_continue", "await_stash")
    /\ jobs[1].pc = "done"
    /\ ~jobs[1].ret.success
    /\ Release(1)
    /\ task' = [task EXCEPT !.pc = "returned", !.note = "Failed to stash changes"]
    /\ UNCHANGED <<view, buttons, dialog, diffVars, statusVars, callVars, composer,
                   merge_head, in_merge_state>>

\* ---- _do_pull after await self.run_git_op(self.repo.pull) ----
\* if self.repo.in_merge_state: the conflicting files are asked for
DoPullConflict ==
    /\ task.pc = "await_pull"
    /\ jobs[1].pc = "done"
    /\ in_merge_state
    /\ jobs' = [jobs EXCEPT ![1] = NewJob("get_conflicting_files", <<>>)]
    /\ task' = [task EXCEPT !.pc = "await_pull_conflicts"]
    /\ UNCHANGED <<view, buttons, dialog, diffVars, statusVars, callVars, composer,
                   merge_head, in_merge_state>>

\* show_merge_conflict_view ends _do_pull
DoPullConflictShown ==
    /\ task.pc = "await_pull_conflicts"
    /\ jobs[1].pc = "done"
    /\ SetView("merge_conflict", {})
    /\ Release(1)
    /\ task' = [task EXCEPT !.pc = "returned"]
    /\ UNCHANGED <<dialog, statusVars, callVars, composer, merge_head, in_merge_state>>

\* no merge in progress (an error is shown when the pull failed): await
\* show_dashboard()
DoPullDone ==
    /\ task.pc = "await_pull"
    /\ jobs[1].pc = "done"
    /\ ~in_merge_state
    /\ Release(1)
    /\ task' = Task("show_dashboard", <<>>)
    /\ UNCHANGED <<view, buttons, dialog, diffVars, statusVars, callVars, composer,
                   merge_head, in_merge_state>>

\* checkout_res is in (an error is shown when it failed): await show_dashboard()
DoCheckoutDone ==
    /\ task.pc = "await_checkout"
    /\ jobs[1].pc = "done"
    /\ Release(1)
    /\ task' = Task("show_dashboard", <<>>)
    /\ UNCHANGED <<view, buttons, dialog, diffVars, statusVars, callVars, composer,
                   merge_head, in_merge_state>>

\* ---- handle_compose_click, run_commit_and_push, start_launch_sequence ----
\* the messages _handle_commit of the composer passes to on_commit: the
\* subject of a merge commit may be empty
Messages == {"", "feat: add"}

HandleComposeClickStart ==
    /\ At("handle_compose_click", "start")
    /\ jobs' = [jobs EXCEPT ![1] = NewJob("get_staged_files", <<"200">>)]
    /\ task' = [task EXCEPT !.pc = "await_staged"]
    /\ UNCHANGED <<view, buttons, dialog, diffVars, statusVars, callVars, composer,
                   merge_head, in_merge_state>>

\* if not staged_files: the snack bar, return
HandleComposeNothingStaged ==
    /\ At("handle_compose_click", "await_staged")
    /\ jobs[1].pc = "done"
    /\ ~NonEmptyOutput(jobs[1].ret)
    /\ Release(1)
    /\ task' = [task EXCEPT !.pc = "returned", !.note = "No files staged!"]
    /\ UNCHANGED <<view, buttons, dialog, diffVars, statusVars, callVars, composer,
                   merge_head, in_merge_state>>

\* a new composer is the view: its commit button calls on_commit(message)
HandleComposeShown ==
    /\ At("handle_compose_click", "await_staged")
    /\ jobs[1].pc = "done"
    /\ NonEmptyOutput(jobs[1].ret)
    /\ SetView("composer",
               {Button("show_dashboard", <<>>)}
               \cup {Button("run_commit_and_push", <<message>>) : message \in Messages})
    /\ Release(1)
    /\ task' = [task EXCEPT !.pc = "returned"]
    /\ UNCHANGED <<dialog, statusVars, callVars, composer, merge_head, in_merge_state>>

\* run_commit_and_push awaits start_launch_sequence(message): the
\* 'Committing...' view, then commit
LaunchStart ==
    /\ At("run_commit_and_push", "start")
    /\ SetView("loading", {})
    /\ jobs' = [jobs EXCEPT ![1] = NewJob("commit", <<task.arg[1]>>)]
    /\ task' = [task EXCEPT !.pc = "await_commit"]
    /\ UNCHANGED <<dialog, statusVars, callVars, composer, merge_head, in_merge_state>>

\* if not commit_res.success: show_launch_result(False, f"Commit failed:\n{stderr}")
LaunchCommitFailed ==
    /\ At("run_commit_and_push", "await_commit")
    /\ jobs[1].pc = "done"
    /\ ~jobs[1].ret.success
    /\ Release(1)
    /\ task' = Task("show_launch_result", <<"False", "Commit failed:", jobs[1].ret.stderr>>)
    /\ UNCHANGED <<view, buttons, dialog, diffVars, statusVars, callVars, composer,
                   merge_head, in_merge_state>>

\* the variant that goes on to push whatever commit returned
LaunchPushesAnyway ==
    /\ At("run_commit_and_push", "await_commit")
    /\ jobs[1].pc = "done"
    /\ SetView("loading", {})
    /\ \E repo \in PushRepos : jobs' = [jobs EXCEPT ![1] = NewJob("push", repo)]
    /\ task' = [task EXCEPT !.pc = "await_push"]
    /\ UNCHANGED <<dialog, statusVars, callVars, composer, merge_head, in_merge_state>>

\* the commit succeeded: the 'Launching to remote...' view, a second of
\* sleep, then push on the repository as it is
LaunchCommitted ==
    /\ At("run_commit_and_push", "await_commit")
    /\ jobs[1].pc = "done"
    /\ jobs[1].ret.success
    /\ SetView("loading", {})
    /\ \E repo \in PushRepos : jobs' = [jobs EXCEPT ![1] = NewJob("push", repo)]
    /\ task' = [task EXCEPT !.pc = "await_push"]
    /\ UNCHANGED <<dialog, statusVars, callVars, composer, merge_head, in_merge_state>>

\* if not push_res.success: show_launch_result(False, f"Push failed:\n{stderr}")
LaunchPushFailed ==
    /\ At("run_commit_and_push", "await_push")
    /\ jobs[1].pc = "done"
    /\ ~jobs[1].ret.success
    /\ Release(1)
    /\ task' = Task("show_launch_result", <<"False", "Push failed:", jobs[1].ret.stderr>>)
    /\ UNCHANGED <<view, buttons, dialog, diffVars, statusVars, callVars, composer,
                   merge_head, in_merge_state>>

\* show_launch_result(True, push_res.stdout or push_res.stderr)
LaunchLanded ==
    /\ At("run_commit_and_push", "await_push")
    /\ jobs[1].pc = "done"
    /\ jobs[1].ret.success
    /\ Release(1)
    /\ task' = Task("show_launch_result",
                    <<"True", "",
                      IF jobs[1].ret.stdout # "" THEN jobs[1].ret.stdout
                      ELSE jobs[1].ret.stderr>>)
    /\ UNCHANGED <<view, buttons, dialog, diffVars, statusVars, callVars, composer,
                   merge_head, in_merge_state>>

\* show_launch_result(success, output): the result view, task.arg keeps
\* success and the two parts of output
ShowLaunchResult ==
    /\ At("show_launch_result", "start")
    /\ SetView(IF task.arg[1] = "True" THEN "landed" ELSE "launch_aborted",
               {Button("show_dashboard", <<>>)})
    /\ task' = [task EXCEPT !.pc = "returned"]
    /\ UNCHANGED <<dialog, statusVars, callVars, composer, repoVars>>

\* ---- run_merge ----
RunMergeInvalid ==
    /\ At("run_merge", "start")
    /\ ~validate_branch_name(Spell[task.arg[1]])
    /\ task' = [task EXCEPT !.pc = "returned", !.note = "Invalid branch name for merge"]
    /\ UNCHANGED <<view, buttons, dialog, diffVars, statusVars, callVars, composer, repoVars>>

RunMergeStart ==
    /\ At("run_merge", "start")
    /\ validate_branch_name(Spell[task.arg[1]])
    /\ jobs' = [jobs EXCEPT ![1] = NewJob("merge_branch", <<task.arg[1]>>)]
    /\ task' = [task EXCEPT !.pc = "await_merge"]
    /\ UNCHANGED <<view, buttons, dialog, diffVars, statusVars, callVars, composer,
                   merge_head, in_merge_state>>

\* if self.repo.in_merge_state: the conflicting files are asked for
RunMergeConflict ==
    /\ At("run_merge", "await_merge")
    /\ jobs[1].pc = "done"
    /\ in_merge_state
    /\ jobs' = [jobs EXCEPT ![1] = NewJob("get_conflicting_files", <<>>)]
    /\ task' = [task EXCEPT !.pc = "await_conflicts"]
    /\ UNCHANGED <<view, buttons, dialog, diffVars, statusVars, callVars, composer,
                   merge_head, in_merge_state>>

\* show_merge_conflict_view, then await show_branch_management_view()
RunMergeConflictShown ==
    /\ At("run_merge", "await_conflicts")
    /\ jobs[1].pc = "done"
    /\ SetView("merge_conflict", {})
    /\ Release(1)
    /\ task' = Task("show_branch_management_view", <<>>)
    /\ UNCHANGED <<dialog, statusVars, callVars, composer, merge_head, in_merge_state>>

\* no merge in progress (an error is shown when the merge failed): await
\* show_branch_management_view()
RunMergeDone ==
    /\ At("run_merge", "await_merge")
    /\ jobs[1].pc = "done"
    /\ ~in_merge_state
    /\ Release(1)
    /\ task' = Task("show_branch_management_view", <<>>)
    /\ UNCHANGED <<view, buttons, dialog, diffVars, statusVars, callVars, composer,
                   merge_head, in_merge_state>>

\* ---- the threads of the application ----
\* every command of the handlers above begins with 'git', and apply_patch
\* is entered only through HandleApply
ThreadStep(j) ==
    \/ RunCommandSpawn(j)
    \/ RunCommandNotFound(j)
    \/ RunCommandOSError(j)
    \/ SubprocessTouchesMarker(j)
    \/ RunCommandExitZero(j)
    \/ RunCommandExitNonzero(j)
    \/ RunCommandTimeout(j)
    \/ RunCommandFails(j)

\* ------------------------------------------------------------------------
\* Specification of the application: open_repo has opened a repository that
\* is not in a merge and awaits show_dashboard()
\* ------------------------------------------------------------------------
Init ==
    /\ merge_head = FALSE
    /\ in_merge_state = FALSE
    /\ jobs = AllIdle
    /\ task = Task("show_dashboard", <<>>)
    /\ ComposerIdle
    /\ view = "welcome"
    /\ buttons = {}
    /\ dialog = {}
    /\ DiffIdle
    /\ StatusIdle
    /\ CallIdle

Next ==
    \/ Click
    \/ AwaitRaises
    \/ ShowDashboardStart
    \/ ShowDashboardLoaded
    \/ ShowStagingViewStart
    \/ UpdateStagingLists
    \/ ShowFileDiffStart
    \/ ShowFileDiffLoaded
    \/ ToggleHunk
    \/ HandleApplyClick
    \/ HandleApply
    \/ ShowBranchViewStart
    \/ ShowBranchViewBranches
    \/ ShowBranchViewLoaded
    \/ RunCheckoutStart
    \/ RunPullStart
    \/ PreCheckClean
    \/ PreCheckDirty
    \/ CloseDialog
    \/ StashAndContinueStart
    \/ StashedContinue
    \/ StashFailed
    \/ DoCheckoutDone
    \/ DoPullConflict
    \/ DoPullConflictShown
    \/ DoPullDone
    \/ HandleComposeClickStart
    \/ HandleComposeNothingStaged
    \/ HandleComposeShown
    \/ LaunchStart
    \/ LaunchCommitFailed
    \/ LaunchCommitted
    \/ LaunchPushFailed
    \/ LaunchLanded
    \/ ShowLaunchResult
    \/ RunMergeInvalid
    \/ RunMergeStart
    \/ RunMergeConflict
    \/ RunMergeConflictShown
    \/ RunMergeDone
    \/ \E j \in JobIds : ThreadStep(j)

Spec == Init /\ [][Next]_vars

\* ------------------------------------------------------------------------
\* GitRepository.get_branch_status, applied to the results of its commands
\* ------------------------------------------------------------------------
MaxCommits == 2

\* '+n' and '-n' as git writes them in the line `# branch.ab +n -n`
Plus(n) ==
    CASE n = 0 -> "+0" [] n = 1 -> "+1" [] n = 2 -> "+2" [] n = 3 -> "+3" [] OTHER -> "+4"
Minus(n) ==
    CASE n = 0 -> "-0" [] n = 1 -> "-1" [] n = 2 -> "-2" [] n = 3 -> "-3" [] OTHER -> "-4"

\* int(group) of a '+n' or '-n'
IntOf(token) == CHOOSE n \in 0..4 : token \in {Plus(n), Minus(n)}

\* stdout of `git status -sb --porcelain=v2` as lines of words, for a
\* repository whose current branch has the upstream `upstream` (<<>> when
\* none is configured) and the counts `ab` against it (<<>> when git cannot
\* count, the upstream's ref being gone)
StatusV2(head, upstream, ab) ==
    << <<"#", "branch.oid", "1a2b3c">>, <<"#", "branch.head", head>> >>
    \o (IF upstream = <<>> THEN <<>>
        ELSE << <<"#", "branch.upstream", upstream[1]>> >>)
    \o (IF ab = <<>> THEN <<>>
        ELSE << <<"#", "branch.ab", Plus(ab[1]), Minus(ab[2])>> >>)
    \o << <<"1", ".M", "N...", "file">> >>

\* re.search(r'# branch.<key> ...', status): the first line that has the key
\* and `groups` words after it, <<>> when there is none
SearchHeader(lines, key, groups) ==
    LET hits == { k \in DOMAIN lines :
                      /\ Len(lines[k]) >= 2 + groups
                      /\ lines[k][1] = "#"
                      /\ lines[k][2] = key }
    IN  IF hits = {} THEN <<>>
        ELSE <<lines[CHOOSE k \in hits : \A h \in hits : k <= h]>>

\* the returned pair: the phrase (its wording, the count and the name put
\* into it) and the name
StatusPhrase(kind, n, of, name) ==
    [kind |-> kind, n |-> n, of |-> of, name |-> name]

get_branch_status(fetch_res, branch_res, status_result) ==
    LET branch == CurrentBranch(branch_res)
        status == status_result.stdout
        upstream_match == SearchHeader(status, "branch.upstream", 1)
        ahead_behind == SearchHeader(status, "branch.ab", 2)
        upstream == upstream_match[1][3]
        ahead == IntOf(ahead_behind[1][3])
        behind == IntOf(ahead_behind[1][4])
    IN  IF ~status_result.success
        THEN StatusPhrase("On branch", 0, branch, branch)
        ELSE IF upstream_match # <<>>
        THEN IF ahead_behind # <<>> /\ ahead > 0 /\ behind > 0
             THEN StatusPhrase("Diverged from", 0, upstream, upstream)
             ELSE IF ahead_behind # <<>> /\ ahead > 0
             THEN StatusPhrase("commits ahead of", ahead, upstream, upstream)
             ELSE IF ahead_behind # <<>> /\ behind > 0
             THEN StatusPhrase("commits behind", behind, upstream, upstream)
             ELSE StatusPhrase("Up to date with", 0, upstream, upstream)
        ELSE StatusPhrase("On branch (no upstream set)", 0, branch, branch)

\* the repositories and command results get_branch_status is applied to:
\* whether the fetch succeeded, the result of the branch query, whether the
\* status command succeeded, and the upstream and counts git would report
BranchStatusArgs ==
    { a \in [fn : {"get_branch_status"},
             fetch_ok : BOOLEAN,
             branch_res : {GitResult(TRUE, "main", ""), GitResult(TRUE, "HEAD", ""),
                           GitResult(FALSE, "", GitStderr)},
             status_ok : BOOLEAN,
             upstream : {<<>>, <<"origin/main">>},
             ab : {<<>>} \cup ((0..MaxCommits) \X (0..MaxCommits))] :
        /\ a.ab # <<>> => a.upstream # <<>>
        /\ a.upstream # <<>> => a.branch_res = GitResult(TRUE, "main", "") }

GetBranchStatus ==
    /\ returned = <<>>
    /\ returned' =
           <<get_branch_status(
                 IF args.fetch_ok THEN GitResult(TRUE, "", "")
                 ELSE GitResult(FALSE, "", GitStderr),
                 args.branch_res,
                 IF args.status_ok
                 THEN GitResult(TRUE, StatusV2(args.branch_res.stdout, args.upstream, args.ab), "")
                 ELSE GitResult(FALSE, "", GitStderr))>>
    /\ UNCHANGED <<args, composer, diffVars, statusVars, repoVars, appVars>>

BranchStatusInit ==
    /\ args \in BranchStatusArgs
    /\ returned = <<>>
    /\ DiffIdle
    /\ StatusIdle
    /\ RepoIdle
    /\ AppIdle

BranchStatusNext == GetBranchStatus

SpecBranchStatus == BranchStatusInit /\ [][BranchStatusNext]_vars

\* the five phrases of the branch status line
FivePhrases ==
    {"Diverged from", "commits ahead of", "commits behind", "Up to date with",
     "On branch (no upstream set)"}

\* C16: get_branch_status returns one of the five phrases: diverged iff an
\* upstream is set with ahead > 0 and behind > 0, ahead iff ahead > 0 and
\* behind = 0, behind iff ahead = 0 and behind > 0, up to date iff both are 0,
\* no upstream iff none is set; whenever an upstream exists the returned name
\* is that upstream. (Counts git cannot give are taken as 0.)
C16_FivePhrasesByPrecedence ==
    returned # <<>> =>
        LET r == returned[1]
            set == args.upstream # <<>>
            ahead == IF args.ab = <<>> THEN 0 ELSE args.ab[1]
            behind == IF args.ab = <<>> THEN 0 ELSE args.ab[2]
        IN  /\ r.kind \in FivePhrases
            /\ r.kind = "Diverged from" <=> (set /\ ahead > 0 /\ behind > 0)
            /\ r.kind = "commits ahead of" <=> (set /\ ahead > 0 /\ behind = 0)
            /\ r.kind = "commits behind" <=> (set /\ ahead = 0 /\ behind > 0)
            /\ r.kind = "Up to date with" <=> (set /\ ahead = 0 /\ behind = 0)
            /\ r.kind = "On branch (no upstream set)" <=> ~set
            /\ set => r.name = args.upstream[1]

\* ------------------------------------------------------------------------
\* GitRepository.get_branches, applied to the results of its commands
\* ------------------------------------------------------------------------
\* what `git branch` prints: on main, on dev, with a detached HEAD, and in a
\* repository without a commit; with what `git rev-parse --abbrev-ref HEAD`
\* prints there (<<>> when it fails)
LocalListings ==
    { [branch |-> <<" ", " ">> \o Spell["dev"] \o <<NL, "*", " ">> \o Spell["main"] \o <<NL>>,
       head |-> <<"main">>],
      [branch |-> <<"*", " ">> \o Spell["dev"] \o <<NL, " ", " ">> \o Spell["main"] \o <<NL>>,
       head |-> <<"dev">>],
      [branch |-> <<"*", " ">> \o Spell["(HEAD detached at 1a2b3c)"]
                  \o <<NL, " ", " ">> \o Spell["main"] \o <<NL>>,
       head |-> <<"HEAD">>],
      [branch |-> <<>>, head |-> <<>>] }

\* what `git branch -r` prints: for a clone (with the pointer origin/HEAD),
\* for a remote added later, and without a remote
RemoteListings ==
    { <<" ", " ", "o", "/", "H", "E", "A", "D", " ", "-", ">", " ", "o", "/", "m", NL,
        " ", " ", "o", "/", "m", NL>>,
      <<" ", " ", "o", "/", "m", NL, " ", " ", "o", "/", "d", NL>>,
      <<>> }

\* [b.strip() for b in remote_res.stdout.splitlines() if '->' not in b]
RemoteBranches(raw) ==
    LET lines == SplitLines(Strip(raw))
        NoPointer(b) == ~Contains(b, <<"-", ">">>)
        kept == SelectSeq(lines, NoPointer)
    IN  [i \in 1..Len(kept) |-> Strip(kept[i])]

\* local_res and remote_res hold the output of the process; _run_command
\* strips it
get_branches(local_res, remote_res, head_res) ==
    [local |-> IF local_res.success THEN LocalBranches(local_res.stdout) ELSE <<>>,
     remotes |-> IF remote_res.success THEN RemoteBranches(remote_res.stdout) ELSE <<>>,
     current |-> CurrentBranch(head_res)]

\* a repository and which of the three commands succeed in it
BranchesArgs ==
    { a \in [fn : {"get_branches"},
             listing : LocalListings,
             remote : RemoteListings,
             local_ok : BOOLEAN,
             remote_ok : BOOLEAN,
             head_ok : BOOLEAN] :
        a.head_ok => a.listing.head # <<>> }

GetBranches ==
    /\ returned = <<>>
    /\ returned' =
           <<get_branches(
                 IF args.local_ok THEN GitResult(TRUE, args.listing.branch, "")
                 ELSE GitResult(FALSE, <<>>, GitStderr),
                 IF args.remote_ok THEN GitResult(TRUE, args.remote, "")
                 ELSE GitResult(FALSE, <<>>, GitStderr),
                 IF args.head_ok THEN GitResult(TRUE, args.listing.head[1], "")
                 ELSE GitResult(FALSE, "", GitStderr))>>
    /\ UNCHANGED <<args, composer, diffVars, statusVars, repoVars, appVars>>

BranchesInit ==
    /\ args \in BranchesArgs
    /\ returned = <<>>
    /\ DiffIdle
    /\ StatusIdle
    /\ RepoIdle
    /\ AppIdle

BranchesNext == GetBranches

SpecBranches == BranchesInit /\ [][BranchesNext]_vars

\* C19: in every result of get_branches, whatever the state of the
\* repository and whichever command failed, current is one of local, no local
\* name carries the marker of the active branch, and no remote entry holds a
\* '->' pointer.
C19_CurrentIsLocal ==
    returned # <<>> =>
        LET r == returned[1]
        IN  /\ \E i \in 1..Len(r.local) : r.local[i] = r.current
            /\ \A i \in 1..Len(r.local) : ~Contains(Spell[r.local[i]], <<"*", " ">>)
            /\ \A i \in 1..Len(r.remotes) : ~Contains(r.remotes[i], <<"-", ">">>)

\* ------------------------------------------------------------------------
\* GitRepository.validate_branch_name, applied to candidate names
\* ------------------------------------------------------------------------
MaxNameParts == 2

\* what the candidate names are put together from
NameParts ==
    { <<"a">>, <<"/">>, <<".">>, <<".", "l", "o", "c", "k">>, <<"l", "o", "c", "k">>,
      <<"@">>, <<"{">>, <<"\\">>, <<"-">>, <<" ">>, <<"\t">>, <<NL>>, <<"\r">>,
      <<"~">>, <<"^">>, <<":">>, <<"?">>, <<"*">>, <<"[">> }

RECURSIVE NamesOf(_)
NamesOf(n) ==
    IF n = 0 THEN {<<>>}
    ELSE NamesOf(n - 1) \cup { name \o part : name \in NamesOf(n - 1), part \in NameParts }

\* names of 99, 100 and 101 characters, of the letter a and ending in '..'
LongNames ==
    { [i \in 1..n |-> IF i >= n - k THEN "." ELSE "a"] : n \in {99, 100, 101}, k \in {-1, 1} }

CandidateNames == NamesOf(MaxNameParts) \cup LongNames

ValidateBranchName ==
    /\ returned = <<>>
    /\ returned' = <<validate_branch_name(args.branch_name)>>
    /\ UNCHANGED <<args, composer, diffVars, statusVars, repoVars, appVars>>

ValidateInit ==
    /\ args \in [fn : {"validate_branch_name"}, branch_name : CandidateNames]
    /\ returned = <<>>
    /\ DiffIdle
    /\ StatusIdle
    /\ RepoIdle
    /\ AppIdle

ValidateNext == ValidateBranchName

SpecValidate == ValidateInit /\ [][ValidateNext]_vars

\* the rejections the rule lists, read off the characters of the name
ListedRejection(name) ==
    LET n == Len(name)
        At2(i, a, b) == name[i] = a /\ name[i + 1] = b
    IN  \/ n = 0
        \/ n > 100
        \/ \E i \in 1..(n - 1) : At2(i, ".", ".") \/ At2(i, "@", "{")
        \/ \E i \in 1..(n - 4) :
               At2(i, ".", "l") /\ At2(i + 2, "o", "c") /\ name[i + 4] = "k"
        \/ \E i \in 1..n : name[i] = "\\"
        \/ (n > 0 /\ name[1] = "-")
        \/ (n > 0 /\ name[n] = ".")
        \/ \E i \in 1..n : name[i] \in {" ", "\t", NL, "\r"}
        \/ \E i \in 1..n : name[i] \in {"~", "^", ":", "?", "*", "["}

\* C20: validate_branch_name rejects every name that is empty, longer than
\* 100 characters, contains '..', '.lock', '@{' or a backslash, starts with
\* '-', ends with '.', contains a control character or whitespace, or one of
\* ~ ^ : ? * [ ; it accepts every other name, one of exactly 100 characters
\* included.
C20_RejectsExactlyTheListed ==
    returned # <<>> => (returned[1] <=> ~ListedRejection(args.branch_name))

\* a name of exactly 100 characters was accepted
C20_Witness ==
    /\ returned = <<TRUE>>
    /\ Len(args.branch_name) = 100

\* ------------------------------------------------------------------------
\* GitRepository.__init__, applied to a candidate path
\* ------------------------------------------------------------------------
NoGitDirMsg == "Not a Git repository ('.git' folder not found)"
NoAccessMsg == "Insufficient read/write permissions for the repository path"
NotValidMsg == "Folder contains '.git' but is not a valid repository"

\* stderr of `git status --porcelain` in a directory whose .git has no HEAD
\* (as git writes it now and as it wrote it before 2.16) and in one whose
\* .git/config cannot be parsed
NotARepoStderr == "fatal: not a git repository (or any of the parent directories): .git"
NotARepoStderrOld == "fatal: Not a git repository (or any of the parent directories): .git"
BadConfigStderr == "fatal: bad config line 1 in file .git/config"

\* "not a git repository" in test_result.stderr.lower()
SaysNotARepository(stderr) == stderr \in {NotARepoStderr, NotARepoStderrOld}

\* the GitResult of the status probe: what git answers for the state of the
\* metadata directory when the process runs to its end, the timeout result
\* otherwise
ProbeResult(metadata, run) ==
    CASE run = "timeout" -> GitResult(FALSE, "", TimeoutMsg)
      [] metadata = "valid" -> GitResult(TRUE, "", "")
      [] metadata = "no_head" -> GitResult(FALSE, "", NotARepoStderr)
      [] metadata = "no_head_old_git" -> GitResult(FALSE, "", NotARepoStderrOld)
      [] OTHER -> GitResult(FALSE, "", BadConfigStderr)

\* the outcome of the constructor: the exception it raised (<<>> when it
\* returned) and self.in_merge_state of the constructed object
Constructed(in_merge) == [error |-> <<>>, in_merge_state |-> in_merge]
ConstructionFails(type, msg) ==
    [error |-> <<[type |-> type, msg |-> msg]>>, in_merge_state |-> FALSE]

\* entry: what path/.git is ("dir", "file", "none"); access: os.access(path,
\* R_OK | W_OK); metadata: the state of the .git directory; run: how the
\* probe's process went ("exits", "timeout", "no_git" when the executable is
\* missing); marker: whether .git/MERGE_HEAD exists
GitRepositoryInit(entry, access, metadata, run, marker) ==
    IF entry # "dir" THEN ConstructionFails("ValueError", NoGitDirMsg)
    ELSE IF ~access THEN ConstructionFails("ValueError", NoAccessMsg)
    ELSE IF run = "no_git" THEN ConstructionFails("RuntimeError", NotInstalledMsg)
    ELSE LET test_result == ProbeResult(metadata, run)
         IN  IF ~test_result.success /\ SaysNotARepository(test_result.stderr)
             THEN ConstructionFails("ValueError", NotValidMsg)
             ELSE Constructed(marker)

ConstructArgs ==
    { a \in [fn : {"__init__"},
             entry : {"dir", "file", "none"},
             access : BOOLEAN,
             metadata : {"valid", "no_head", "no_head_old_git", "bad_config"},
             run : {"exits", "timeout", "no_git"},
             marker : BOOLEAN] :
        a.entry # "dir" => (a.metadata = "no_head" /\ ~a.marker) }

Construct ==
    /\ returned = <<>>
    /\ returned' = <<GitRepositoryInit(args.entry, args.access, args.metadata,
                                       args.run, args.marker)>>
    /\ UNCHANGED <<args, composer, diffVars, statusVars, repoVars, appVars>>

ConstructInit ==
    /\ args \in ConstructArgs
    /\ returned = <<>>
    /\ DiffIdle
    /\ StatusIdle
    /\ RepoIdle
    /\ AppIdle

ConstructNext == Construct

SpecConstruct == ConstructInit /\ [][ConstructNext]_vars

\* C21: construction fails with a ValueError when the path has no .git
\* directory, when read and write access is lacking, or when the metadata
\* directory is there but is not a valid repository, the message of the
\* first case differing from that of the last; and a constructed object has
\* in_merge_state equal to the existence of MERGE_HEAD.
C21_ConstructionContract ==
    returned # <<>> =>
        LET r == returned[1]
            failsWith(msg) ==
                r.error # <<>> /\ r.error[1].type = "ValueError" /\ r.error[1].msg = msg
        IN  /\ args.entry # "dir" => failsWith(NoGitDirMsg)
            /\ (args.entry = "dir" /\ ~args.access) => failsWith(NoAccessMsg)
            /\ (args.entry = "dir" /\ args.access /\ args.run = "exits"
                    /\ args.metadata # "valid") => failsWith(NotValidMsg)
            /\ NoGitDirMsg # NotValidMsg
            /\ r.error = <<>> => r.in_merge_state = args.marker

\* ------------------------------------------------------------------------
\* Specification of the hunk selection: a diff view on any text, its
\* checkboxes ticked in any order, and the apply button
\* ------------------------------------------------------------------------
SelectNext ==
    \/ BuildView
    \/ ToggleHunk
    \/ HandleApplyClick

SpecSelect == DiffInit /\ [][SelectNext]_vars

\* the hunks of the document whose checkbox is ticked, from the i-th on, in
\* the order of the document
RECURSIVE TickedFrom(_, _)
TickedFrom(document, i) ==
    IF i > Len(document) THEN <<>>
    ELSE (IF hunks[i].chk THEN <<document[i]>> ELSE <<>>) \o TickedFrom(document, i + 1)

\* C17: whatever hunks are selected, in whatever order they were clicked,
\* the patch handed to on_apply is the file header, one line break, and the
\* selected hunks of the document joined by line breaks in document order,
\* each once and no other.
C17_PatchIsSelectionInDocumentOrder ==
    task.name = "handle_apply" =>
        LET document == ParseHunks(diff_text)
        IN  task.patch = document.file_header \o <<NL>>
                             \o Join(TickedFrom(document.hunks, 1))

\* a patch was built from a document of two hunks or more with the second
\* hunk selected and the first not
C17_Witness ==
    /\ task.name = "handle_apply"
    /\ Len(hunks) >= 2
    /\ ~hunks[1].chk
    /\ hunks[2].chk

\* ------------------------------------------------------------------------
\* Specification of the apply path: the diff view of a file and calls of
\* apply_patch
\* ------------------------------------------------------------------------
ApplyInit ==
    /\ diff_text \in SampleDiffs
    /\ is_staged \in BOOLEAN
    /\ hunks = <<>>
    /\ file_header = <<>>
    /\ controls = "unbuilt"
    /\ merge_head \in BOOLEAN
    /\ in_merge_state = merge_head
    /\ jobs = [j \in JobIds |-> IdleJob]
    /\ StatusIdle
    /\ CallIdle
    /\ AppIdle

ApplyNext ==
    \/ BuildView
    \/ ToggleHunk
    \/ HandleApplyClick
    \/ CallApplyPatch
    \/ CallReturns
    \/ \E j \in JobIds :
           \/ ThreadStep(j)
           \/ ApplyPatchEmpty(j)
           \/ ApplyPatchCreateFails(j)
           \/ ApplyPatchWriteFails(j)
           \/ ApplyPatchWritten(j)

SpecApply == ApplyInit /\ [][ApplyNext]_vars

\* thread j runs apply_patch on empty patch content
EmptyPatchCall(j) == jobs[j].fn = "apply_patch" /\ jobs[j].arg[1] = ""

\* C18: with no hunk ticked _handle_apply_click does not call on_apply; and
\* apply_patch on empty patch content returns a failed GitResult, makes no
\* temporary file, runs no git command and leaves in_merge_state as it was.
C18_EmptySelectionIsNoOp ==
    /\ [](task.name = "handle_apply" => \E i \in 1..Len(hunks) : hunks[i].chk)
    /\ [](\A j \in JobIds :
              EmptyPatchCall(j) =>
                  /\ jobs[j].pc \in {"ap_begin", "done"}
                  /\ ~jobs[j].file_exists
                  /\ ~jobs[j].path_set
                  /\ jobs[j].log = <<>>
                  /\ jobs[j].pc = "done" =>
                         jobs[j].ret = GitResult(FALSE, "", NoPatchMsg))
    /\ [][(\E j \in JobIds : EmptyPatchCall(j)) =>
              in_merge_state' = in_merge_state]_vars

\* the apply button was clicked with no hunk ticked and returned, and
\* apply_patch has returned from a call with empty patch content
C18_Witness ==
    /\ task.name = "_handle_apply_click"
    /\ task.pc = "returned"
    /\ Len(hunks) >= 1
    /\ \E j \in JobIds : EmptyPatchCall(j) /\ jobs[j].pc = "done"

\* ------------------------------------------------------------------------
\* GitRocketApp.run_ai_suggestion (the AI button of the commit composer)
\* ------------------------------------------------------------------------
max_retries == 3

AiDisabledMsg == "Error: AI features are disabled. Check GEMINI_API_KEY and logs."
AiUnavailableMsg == "Error: AI service unavailable after {max_retries} attempts."
NoStagedMsg == "No staged changes to analyze."

\* get_file_diff('.', True) as _get_ai_suggestion_from_gemini sees it: the
\* staged diff when `git diff` succeeded, the error text otherwise
StagedDiffText(ok, staged_diff) ==
    IF ok THEN staged_diff ELSE "Error getting diff:\n{stderr}"

\* the user clicks the AI button of the composer; args holds the module's
\* gemini_model (whether it is configured) and the staged diff of the
\* repository, task.arg the attempts begun and the attempts that raised,
\* task.note what the run has shown to the user
AiClick ==
    /\ Finished
    /\ ~composer.ai_button_disabled
    /\ task' = Task("run_ai_suggestion", <<0, 0>>)
    /\ UNCHANGED <<view, buttons, dialog, composer, diffVars, statusVars, callVars,
                   repoVars>>

\* if gemini_model is None: show_error, return
AiDisabled ==
    /\ At("run_ai_suggestion", "start")
    /\ ~args.gemini_model
    /\ composer' = [composer EXCEPT !.snack_bar = AiDisabledMsg]
    /\ task' = [task EXCEPT !.pc = "returned", !.note = "disabled"]
    /\ UNCHANGED <<view, buttons, dialog, diffVars, statusVars, callVars, repoVars>>

\* the button is disabled and the loop is entered
AiBegin ==
    /\ At("run_ai_suggestion", "start")
    /\ args.gemini_model
    /\ composer' = [composer EXCEPT !.ai_button_disabled = TRUE]
    /\ task' = [task EXCEPT !.pc = IF max_retries > 0 THEN "attempt" ELSE "after_loop"]
    /\ UNCHANGED <<view, buttons, dialog, diffVars, statusVars, callVars, repoVars>>

\* an attempt finds nothing staged: the notice, break
AiNothingStaged ==
    /\ At("run_ai_suggestion", "attempt")
    /\ \E ok \in BOOLEAN : StagedDiffText(ok, args.staged_diff) = ""
    /\ composer' = [composer EXCEPT !.snack_bar = NoStagedMsg]
    /\ task' = [task EXCEPT !.pc = "after_loop", !.arg = <<@[1] + 1, @[2]>>,
                            !.note = "notice"]
    /\ UNCHANGED <<view, buttons, dialog, diffVars, statusVars, callVars, repoVars>>

\* an attempt gets a suggestion: populate_from_suggestion, break
AiSuggested ==
    /\ At("run_ai_suggestion", "attempt")
    /\ \E ok \in BOOLEAN : StagedDiffText(ok, args.staged_diff) # ""
    /\ composer' = [composer EXCEPT !.populated = TRUE]
    /\ task' = [task EXCEPT !.pc = "after_loop", !.arg = <<@[1] + 1, @[2]>>,
                            !.note = "suggested"]
    /\ UNCHANGED <<view, buttons, dialog, diffVars, statusVars, callVars, repoVars>>

\* an attempt raises (the diff query, the request or the populating): on
\* the last attempt show_error, otherwise sleep and the next attempt
AiAttemptRaises ==
    /\ At("run_ai_suggestion", "attempt")
    /\ LET attempt == task.arg[1]
       IN  /\ composer' = IF attempt = max_retries - 1
                          THEN [composer EXCEPT !.snack_bar = AiUnavailableMsg]
                          ELSE composer
           /\ task' = [task EXCEPT
                          !.pc = IF attempt + 1 < max_retries THEN "attempt"
                                 ELSE "after_loop",
                          !.arg = <<@[1] + 1, @[2] + 1>>,
                          !.note = IF attempt = max_retries - 1 THEN "failure" ELSE @]
    /\ UNCHANGED <<view, buttons, dialog, diffVars, statusVars, callVars, repoVars>>

\* after the loop the button is enabled again
AiFinish ==
    /\ At("run_ai_suggestion", "after_loop")
    /\ composer' = [composer EXCEPT !.ai_button_disabled = FALSE]
    /\ task' = [task EXCEPT !.pc = "returned"]
    /\ UNCHANGED <<view, buttons, dialog, diffVars, statusVars, callVars, repoVars>>

SuggestInit ==
    /\ args \in [fn : {"run_ai_suggestion"}, gemini_model : BOOLEAN,
                 staged_diff : {"", "diff --git a/f b/f"}]
    /\ returned = <<>>
    /\ DiffIdle
    /\ StatusIdle
    /\ RepoIdle
    /\ AppIdle

SuggestNext ==
    \/ AiClick
    \/ AiDisabled
    \/ AiBegin
    \/ AiNothingStaged
    \/ AiSuggested
    \/ AiAttemptRaises
    \/ AiFinish

SpecSuggest == SuggestInit /\ [][SuggestNext]_vars

\* C22: a run of run_ai_suggestion makes at most 3 attempts; with an empty
\* staged diff it ends with the 'nothing to suggest' notice on the first
\* attempt that does not raise and suggests nothing; it shows the failure if
\* and only if all 3 attempts raised; and the AI button is enabled when it has
\* returned.
C22_BoundedRetries ==
    (task.name = "run_ai_suggestion" /\ args.gemini_model) =>
        /\ task.arg[1] <= 3
        /\ task.pc = "returned" =>
               /\ args.staged_diff = "" =>
                      /\ task.note \in {"notice", "failure"}
                      /\ task.note = "notice" => task.arg[1] = task.arg[2] + 1
               /\ task.note = "suggested" => task.arg[1] = task.arg[2] + 1
               /\ task.note = "failure" <=> task.arg[2] = 3
               /\ ~composer.ai_button_disabled


\* ------------------------------------------------------------------------
\* Specification of the staging lists: update_staging_lists over the
\* numbers of staged and unstaged entries of the repository
\* ------------------------------------------------------------------------
file_limit == 200

\* the entries of a listing with n files, in their order
Listing(n) == [i \in 1..n |-> i]

\* one list of the staging view: a row per file returned by
\* get_unstaged_files(file_limit) / get_staged_files(file_limit), which
\* end with files[:limit], then the
\* '...and more' text if len(files) >= file_limit
StagingList(n) ==
    LET files == Take(Listing(n), file_limit)
    IN  [rows |-> files, notice |-> Len(files) >= file_limit]

update_staging_lists(n_unstaged, n_staged) ==
    [unstaged_list |-> StagingList(n_unstaged), staged_list |-> StagingList(n_staged)]

EntryCounts == {0, 1, 2, 199, 200, 201, 202, 250}

StagingArgs ==
    [fn : {"update_staging_lists"}, n_unstaged : EntryCounts, n_staged : EntryCounts]

UpdateLists ==
    /\ args.fn = "update_staging_lists"
    /\ returned = <<>>
    /\ returned' = <<update_staging_lists(args.n_unstaged, args.n_staged)>>
    /\ UNCHANGED <<args, composer, diffVars, statusVars, repoVars, appVars>>

StagingInit ==
    /\ args \in StagingArgs
    /\ returned = <<>>
    /\ ComposerIdle
    /\ DiffIdle
    /\ StatusIdle
    /\ RepoIdle
    /\ AppIdle

StagingNext == UpdateLists

SpecStaging == StagingInit /\ [][StagingNext]_vars

\* the notice of a list is shown exactly when the repository has more than
\* file_limit entries, and every entry is listed up to file_limit
ExactTruncation(n, list) ==
    /\ list.notice <=> n > file_limit
    /\ n <= file_limit => list.rows = Listing(n)

\* C24: for every number n of staged (or unstaged) entries the staging view
\* shows its '...and more' notice if and only if n > 200; with exactly 200
\* entries all are listed and no notice is shown.
C24_NoticeIffTruncated ==
    returned # <<>> =>
        /\ ExactTruncation(args.n_unstaged, returned[1].unstaged_list)
        /\ ExactTruncation(args.n_staged, returned[1].staged_list)

\* ------------------------------------------------------------------------
\* Claims about the orchestration layer (checked under Spec)
\* ------------------------------------------------------------------------
\* C7: whenever a non-empty hunk selection is applied, the built patch is
\* handed to apply_patch, which issues exactly one 'git apply --cached'
\* command, with '--reverse' if and only if the diff was opened from the
\* staged list.
C7_SelectionReachesApplyPatch ==
    (task.name = "handle_apply" /\ task.pc # "start") =>
        /\ jobs[1].fn = "apply_patch"
        /\ jobs[1].arg[2] = (IF is_staged THEN "reverse" ELSE "forward")
        /\ jobs[1].pc = "done" => jobs[1].log = <<ApplyCommand(is_staged)>>

\* C9: no 'git merge <name>' and no 'git checkout <name>' command is issued
\* for a name that validate_branch_name rejects.
C9_OnlyValidatedNamesReachGit ==
    \A j \in JobIds :
        (jobs[j].fn \in {"checkout_branch", "merge_branch"} /\ jobs[j].pc = "running") =>
            validate_branch_name(Spell[jobs[j].arg[1]])

\* C10: at any moment at most one git command of the repository is in flight.
C10_OneCommandInFlight ==
    Cardinality({j \in JobIds : jobs[j].pc = "running"}) <= 1

\* C11: after a merge that leaves a merge in progress, the conflicting files
\* are queried and the merge-conflict view is what stays displayed until the
\* handler has finished: the running handler never replaces it by another
\* view.
C11_ConflictViewRemains ==
    [][(view = "merge_conflict" /\ ~Finished) => view' = "merge_conflict"]_vars

\* a pull or a checkout enters thread j in this step
OperationIssued(j) ==
    /\ jobs'[j].fn \in {"pull", "checkout_branch"}
    /\ jobs'[j].pc = "call"
    /\ jobs[j].fn \notin {"pull", "checkout_branch"}

\* the call of thread j has returned a cleanliness check that is true
CheckedClean(j) ==
    /\ jobs[j].fn = "is_working_directory_clean"
    /\ jobs[j].pc = "done"
    /\ IsClean(jobs[j].ret)

\* the call of thread j has returned a stash command that was issued and
\* succeeded
StashedFirst(j) ==
    /\ jobs[j].fn = "create_stash"
    /\ jobs[j].pc = "done"
    /\ jobs[j].log = <<CommandList(Commands("create_stash", jobs[j].arg)[1])>>
    /\ jobs[j].ret.success

\* C23 (as stated): a pull or a checkout is issued only when the cleanliness
\* check just before it returned true or an auto-stash was issued and
\* succeeded first, and it is never issued when the stash prompt is
\* cancelled, when the stash fails, or when the cleanliness query failed.
C23_NeverAfterFailedQuery ==
    [][\A j \in JobIds :
          OperationIssued(j) =>
              \/ CheckedClean(j)
              \/ StashedFirst(j) /\ task.arg[2] # "query_failed"]_vars

\* C23 (amended): a pull or a checkout is issued only when the cleanliness
\* check just before it returned true or an auto-stash was issued and
\* succeeded first; a cancelled prompt and a failed stash issue nothing. A
\* cleanliness query that failed counts as uncommitted changes: the prompt is
\* shown, and the operation follows a successful auto-stash.
C23_PreflightGuardsOperation ==
    [][/\ \A j \in JobIds : OperationIssued(j) => (CheckedClean(j) \/ StashedFirst(j))
       /\ (\/ At("close_dialog", "start")
           \/ At("stash_and_continue", "await_stash") /\ ~jobs[1].ret.success)
              => \A j \in JobIds : jobs'[j].fn \notin {"pull", "checkout_branch"}
       /\ (task.pc = "await_clean" /\ jobs[1].pc = "done" /\ ~jobs[1].ret.success)
              => \E b \in dialog' : b.handler = "stash_and_continue"]_vars

\* a pull runs after the auto-stash that followed a failed cleanliness query
C23_Witness ==
    /\ task.name = "stash_and_continue"
    /\ task.arg[2] = "query_failed"
    /\ jobs[1].fn = "pull"
    /\ jobs[1].pc = "running"

\* every commit command is ['git', 'commit', '-F', '-'] with the message as
\* the subprocess's input; the result view on display is the one
\* show_launch_result was called for
CommitReadsStdin ==
    /\ \A j \in JobIds :
           jobs[j].fn = "commit" =>
               /\ jobs[j].input_data = jobs[j].arg
               /\ \A i \in 1..Len(jobs[j].log) :
                      jobs[j].log[i] = <<"git", "commit", "-F", "-">>
    /\ At("show_launch_result", "returned") =>
           view = IF task.arg[1] = "True" THEN "landed" ELSE "launch_aborted"

\* a step of the launch sequence: push follows a commit that was issued and
\* succeeded; a result is shown for the step that just returned, success
\* only for a successful push, failure with the step's name and stderr
LaunchStep ==
    LET r == jobs[1].ret
        shown == task'.name = "show_launch_result" /\ task.name # "show_launch_result"
    IN  /\ (jobs'[1].fn = "push" /\ jobs[1].fn # "push") =>
               /\ jobs[1].fn = "commit"
               /\ jobs[1].pc = "done"
               /\ jobs[1].log = << <<"git", "commit", "-F", "-">> >>
               /\ r.success
        /\ shown =>
               /\ jobs[1].pc = "done"
               /\ jobs[1].fn \in {"commit", "push"}
               /\ task'.arg[1] = "True" => (jobs[1].fn = "push" /\ r.success)
               /\ task'.arg[1] # "True" =>
                      /\ ~r.success
                      /\ task'.arg[2] = IF jobs[1].fn = "commit" THEN "Commit failed:"
                                        ELSE "Push failed:"
                      /\ task'.arg[3] = r.stderr
        /\ (/\ task.name = "run_commit_and_push"
            /\ task.pc \in {"await_commit", "await_push"}
            /\ jobs[1].pc = "done"
            /\ ~r.success
            /\ task' # task) => (shown /\ task'.arg[1] = "False")
        /\ (view' = "landed" /\ view # "landed") =>
               (At("show_launch_result", "start") /\ task.arg[1] = "True")

\* C26: in the commit-and-launch sequence the commit command, with the
\* message on standard input and never as an argument, is issued before any
\* push step; push is attempted only if the commit succeeded; the success
\* view is shown only if commit and push both succeeded; and a step that
\* returns a failure ends the sequence with the failure view carrying that
\* step's stderr.
C26_CommitThenPush == []CommitReadsStdin /\ [][LaunchStep]_vars

\* the sequence has landed: the success view after a commit and a push
C26_Witness ==
    /\ At("show_launch_result", "returned")
    /\ task.arg[1] = "True"
    /\ view = "landed"

\* ------------------------------------------------------------------------
\* Claims about the repository layer (checked under SpecExec)
\* ------------------------------------------------------------------------
FirstTokenIsGit(command) == Len(command) >= 1 /\ command[1] = "git"

\* C1: for every command whose first token is not exactly 'git' (the empty
\* command too), _run_command starts no subprocess and returns a failed
\* GitResult whose stderr is the fixed security message, which does not
\* contain the command.
C1_RejectsWithoutSubprocess ==
    \A j \in JobIds :
        (jobs[j].fn = "_run_command" /\ ~FirstTokenIsGit(jobs[j].arg)) =>
            /\ jobs[j].pc \in {"call", "done"}
            /\ jobs[j].log = <<>>
            /\ jobs[j].pc = "done" => jobs[j].ret = GitResult(FALSE, "", SecurityMsg)

C1_Witness ==
    /\ jobs[1].fn = "_run_command"
    /\ jobs[1].arg = <<"curl", "evil">>
    /\ jobs[1].pc = "done"
    /\ jobs[1].ret.stderr = SecurityMsg
    /\ jobs[1].log = <<>>

\* C2: whenever a call of _run_command has returned, whatever its outcome
\* (exit code 0, another exit code, timeout, any other failure),
\* in_merge_state equals the existence of MERGE_HEAD at that moment.
C2_MergeStateFreshOnReturn ==
    \A j \in JobIds :
        (jobs[j].fn = "_run_command" /\ jobs[j].pc = "done" /\ jobs[j].log # <<>>) =>
            in_merge_state = merge_head

\* C8: on every exit path of apply_patch, no temporary file made by the call
\* is on disk when the call has returned.
C8_NoTempFileAfterReturn ==
    \A j \in JobIds :
        (jobs[j].fn = "apply_patch" /\ jobs[j].pc = "done") => ~jobs[j].file_exists

C13_MissingGitAlwaysRaises ==
    \A j \in JobIds : jobs[j].outcome = "not_found" => jobs[j].pc = "raised"

\* the argument vector is a `git push`
IsPush(command) == Len(command) >= 2 /\ command[2] = "push"

\* C14: push issues no `git push` at all when the repository has no remote
\* origin with a push URL or has no current branch to resolve (detached HEAD,
\* no commit yet); its commands come in the order remote check, branch check,
\* upstream lookup, push.
C14_PushFailsFast ==
    \A j \in JobIds :
        jobs[j].fn = "push" =>
            /\ (jobs[j].arg[1] # "origin" \/ jobs[j].arg[2] # "branch") =>
                   \A k \in DOMAIN jobs[j].log : ~IsPush(jobs[j].log[k])
            /\ \A k \in DOMAIN jobs[j].log :
                   /\ k = 1 => jobs[j].log[k] = <<"git", "remote", "-v">>
                   /\ k = 2 => jobs[j].log[k] = <<"git", "rev-parse", "--abbrev-ref", "HEAD">>
                   /\ k = 4 => IsPush(jobs[j].log[k])
                   /\ k <= 4

\* C15: the push command is `git push --set-upstream origin B` when the
\* current branch B has no upstream and the plain `git push` when it has one.
C15_PushCommandFollowsUpstream ==
    \A j \in JobIds :
        jobs[j].fn = "push" =>
            \A k \in DOMAIN jobs[j].log :
                IsPush(jobs[j].log[k]) =>
                    jobs[j].log[k] = IF jobs[j].arg[3] = "none"
                                     THEN <<"git", "push", "--set-upstream", "origin", "main">>
                                     ELSE <<"git", "push">>

\* C25: the argument vector handed to the subprocess is exactly the token
\* sequence of the command the caller passed, none dropped: create_stash,
\* set_git_config, apply_stash and drop_stash pass their message, value or
\* stash identifier even when it is the empty string.
C25_ArgumentVectorIsCommand ==
    \A j \in JobIds :
        jobs[j].pc = "running" => jobs[j].log[Len(jobs[j].log)] = jobs[j].cmd

\* ------------------------------------------------------------------------
\* Claims about the status queries (checked under SpecStatus)
\* ------------------------------------------------------------------------
\* the status lines as git wrote them
PorcelainLines == SplitLines(status_raw)

IsUntracked(line) == Len(line) >= 2 /\ line[1] = "?" /\ line[2] = "?"

PorcelainCount(P(_)) ==
    Cardinality({i \in 1..Len(PorcelainLines) : P(PorcelainLines[i])})

PorcelainSummary ==
    LET Staged(line) == line[1] \notin {" ", "?"}
        Mod(line) == ~IsUntracked(line) /\ line[2] = "M"
        Del(line) == ~IsUntracked(line) /\ line[2] = "D"
    IN  [modified |-> PorcelainCount(Mod), new |-> PorcelainCount(IsUntracked),
         deleted |-> PorcelainCount(Del), staged |-> PorcelainCount(Staged)]

PorcelainUnstagedPaths ==
    LET Listed(line) == IsUntracked(line) \/ line[2] # " "
        sel == SelectSeq(PorcelainLines, Listed)
    IN  [i \in 1..Len(sel) |-> SliceFrom(sel[i], 3)]

\* C3: for every porcelain output of a successful status command,
\* get_changes_summary returns staged = lines whose index column is neither
\* blank nor '?', new = '??' lines, modified / deleted = non-'??' lines whose
\* work-tree column is 'M' / 'D', also when the first line has a blank index
\* column.
C3_SummaryMatchesPorcelain ==
    (summary # <<>> /\ status_ok) => summary[1] = PorcelainSummary

\* C4: for every porcelain output and every limit L, get_unstaged_files(L)
\* returns, in order and unaltered, the paths of the first min(n, L) lines
\* that are untracked or have a non-blank work-tree column.
C4_UnstagedMatchesPorcelain ==
    (unstaged # <<>> /\ status_ok) =>
        unstaged[1] = Take(PorcelainUnstagedPaths, limit)

\* ------------------------------------------------------------------------
\* Claims about the patch engine (checked under SpecDiff)
\* ------------------------------------------------------------------------
HunkTexts == [i \in 1..Len(hunks) |-> hunks[i].text]

\* fileHeader + "\n" + the hunks joined in original order by "\n"
Reassembled == file_header \o <<NL>> \o Join(HunkTexts)

MarkerLines == HunkStarts(Split(diff_text))

\* C5: for every diff text, including one whose first line is a
\* '@@' line and one with no '@@' line, header + "\n" + hunks reproduces it.
C5_RoundTripEveryText ==
    controls # "unbuilt" => Reassembled = diff_text

\* C6: one hunk per line that begins with '@@', every hunk begins with such
\* a line, so a text without a '@@' line (the empty text too) has no hunks.
C6_OneHunkPerMarker ==
    controls # "unbuilt" =>
        /\ Len(hunks) = Cardinality(MarkerLines)
        /\ \A i \in 1..Len(hunks) : StartsWithAt(hunks[i].text)

====
